---- MODULE Spec2Model ----
(***************************************************************************)
(* A model of pyNTM's FlexModel simulation engine (src/pyNTM/flex_model.py) *)
(* : update_simulation, LSP placement, demand routing, the multigraph path  *)
(* enumeration, validate_model, add_circuit, load_model_file and            *)
(* get_shortest_path.                                                       *)
(*                                                                          *)
(* Bandwidth quantities (capacity share, setup and reserved bandwidth) are  *)
(* exact rationals in the model, held as integers scaled by BwScale; the    *)
(* code holds them as Python floats.  Interface traffic is an exact         *)
(* rational <<numerator, denominator>>.                                     *)
(***************************************************************************)
EXTENDS Integers, Sequences, FiniteSets, TLC

\* ------------------------------------------------------------------ bounds

\* Number of RSVP LSPs in the model.
NumLsps == 2

\* Interface costs range over 1..MaxCost.
MaxCost == 2

\* ------------------------------------------------------- sentinels, scale

\* configured_setup_bandwidth is None: the LSP is auto-bandwidth.
None == -1

\* lsp.reserved_bandwidth = 'Unrouted'.
Unrouted == -2

RECURSIVE Factorial(_)
Factorial(n) == IF n <= 1 THEN 1 ELSE n * Factorial(n - 1)

\* A bandwidth b of the program is the integer b * BwScale of the model:
\* every capacity * percent / 100 and every group traffic / len(lsps) is whole.
BwScale == 100 * Factorial(NumLsps)

Bw(x) == x * BwScale

\* ------------------------------------------------------------- arithmetic

RECURSIVE SumSet(_, _)
SumSet(S, f) ==
    IF S = {} THEN 0
    ELSE LET x == CHOOSE y \in S : TRUE IN f[x] + SumSet(S \ {x}, f)

RECURSIVE SumSeq(_)
SumSeq(s) == IF s = <<>> THEN 0 ELSE Head(s) + SumSeq(Tail(s))

MinOf(S) == CHOOSE x \in S : \A y \in S : x <= y

RECURSIVE Gcd(_, _)
Gcd(a, b) == IF b = 0 THEN a ELSE Gcd(b, a % b)

\* Rationals <<n, d>> in lowest terms, d > 0.
RatZero == <<0, 1>>

RatNorm(n, d) == IF n = 0 THEN RatZero ELSE LET g == Gcd(n, d) IN <<n \div g, d \div g>>

RatAdd(p, q) == RatNorm(p[1] * q[2] + q[1] * p[2], p[2] * q[2])

RECURSIVE RatSum(_)
RatSum(s) == IF s = <<>> THEN RatZero ELSE RatAdd(Head(s), RatSum(Tail(s)))

\* ---------------------------------------------------------------- topology

Nodes == {"A", "B", "C"}

\* The circuits a model may hold: circuit_id |-> the two nodes it joins.
\* Circuits 1 and 2 are parallel links between A and B.
CircuitEnds == <<
    <<"A", "B">>,
    <<"A", "B">>,
    <<"B", "C">>,
    <<"A", "C">> >>

CircuitIds == DOMAIN CircuitEnds

\* Capacity of each circuit's two interfaces.
CircuitCapacity == << 100, 50, 100, 100 >>

\* The sets of circuits a model is built from.
TopologyShapes == { {1}, {1, 2}, {1, 2, 3}, {1, 3, 4} }

\* Circuits whose cost varies over 1..MaxCost; the others have cost 1.
VariableCostCircuits == {2, 4}

\* An interface is addressed as <<node, remote node, circuit_id>>.
InterfacesOfCircuit(c) ==
    { <<CircuitEnds[c][1], CircuitEnds[c][2], c>>,
      <<CircuitEnds[c][2], CircuitEnds[c][1], c>> }

AllInterfaceKeys == UNION { InterfacesOfCircuit(c) : c \in CircuitIds }

\* At most one circuit of a model is impaired: failed, RSVP-disabled or
\* with half of its bandwidth reservable.
Impairments == {"none", "failed", "norsvp", "pct50"}

MakeInterface(c, cost, imp) ==
    [ cost |-> cost,
      capacity |-> CircuitCapacity[c],
      circuit_id |-> c,
      rsvp_enabled |-> (imp # "norsvp"),
      percent_reservable_bandwidth |-> IF imp = "pct50" THEN 50 ELSE 100,
      failed |-> (imp = "failed") ]

Topologies ==
    { [ i \in UNION { InterfacesOfCircuit(c) : c \in shape } |->
          MakeInterface(i[3], costs[i[3]],
                        IF i[3] = impaired[1] THEN impaired[2] ELSE "none") ] :
        shape \in TopologyShapes,
        costs \in { f \in [ CircuitIds -> 1..MaxCost ] :
                     \A c \in CircuitIds \ VariableCostCircuits : f[c] = 1 },
        impaired \in (CircuitIds \X Impairments) }

\* --------------------------------------------- models given to validation

\* What may be wrong with a link of a model handed to the constructor.
Defects == {"none", "orphan", "wrong_id", "capacity", "failed"}

\* The interfaces of a link between u and v, both named k on their nodes,
\* with circuit_id c: sound, or with one defect.
LinkInterfaces(u, v, k, c, defect) ==
    LET interface(id, capacity, failed) ==
            [ cost |-> 1, capacity |-> capacity, circuit_id |-> id, rsvp_enabled |-> TRUE,
              percent_reservable_bandwidth |-> 100, failed |-> failed ]
        forward == [ i \in { <<u, v, k>> } |-> interface(c, 100, FALSE) ]
        back == [ i \in { <<v, u, k>> } |->
                    interface(IF defect = "wrong_id" THEN c + 1 ELSE c,
                              IF defect = "capacity" THEN 50 ELSE 100,
                              defect = "failed") ]
    IN  IF defect = "orphan" THEN forward ELSE forward @@ back

\* The models validation is tried on: a link A-B, sound or with mismatched
\* ends, alone or with a second link, parallel to it or from B to C, that
\* may have any defect.
ModelsToValidate ==
    { LinkInterfaces("A", "B", 1, 1, d1) : d1 \in {"none", "capacity", "failed"} }
    \cup { LinkInterfaces("A", "B", 1, 1, d1) @@ LinkInterfaces(e[1], e[2], 2, 2, d2) :
             d1 \in {"none", "capacity", "failed"},
             e \in { <<"A", "B">>, <<"B", "C">> },
             d2 \in Defects }

\* SRLGs with their member nodes and interfaces, and the memberships the
\* nodes and interfaces themselves record.
SrlgSetup(members, nodes, interfaces) ==
    [ srlg_objects |-> members, node_srlgs |-> nodes, interface_srlgs |-> interfaces ]

Srlg(node_objects, interface_objects_of_srlg) ==
    [ node_objects |-> node_objects, interface_objects |-> interface_objects_of_srlg ]

SrlgSetups ==
    LET none == [ n \in Nodes |-> {} ]
        one(ns, is) == [ g \in {"s1"} |-> Srlg(ns, is) ]
        two(ns) == [ g \in {"s1", "s2"} |-> Srlg(ns, {}) ]
        ab == <<"A", "B", 1>>
    IN  { SrlgSetup([ g \in {} |-> {} ], none, {}),
          SrlgSetup(one({"A"}, {}), [ none EXCEPT !["A"] = {"s1"} ], {}),
          SrlgSetup(one({"A"}, {}), none, {}),
          SrlgSetup(two({"A"}), none, {}),
          SrlgSetup(two({"A", "B"}), [ none EXCEPT !["B"] = {"s1"} ], {}),
          SrlgSetup(one({}, {ab}), none, { <<ab, "s1">> }),
          SrlgSetup(one({}, {ab}), none, {}) }

\* ------------------------------------------------------- LSPs and demands

LspOptions == <<
    [source |-> "A", dest |-> "B", configured_setup_bandwidth |-> None],
    [source |-> "A", dest |-> "B", configured_setup_bandwidth |-> 80],
    [source |-> "A", dest |-> "C", configured_setup_bandwidth |-> None],
    [source |-> "A", dest |-> "A", configured_setup_bandwidth |-> None] >>

Demand(source, dest, traffic) == [source |-> source, dest |-> dest, traffic |-> traffic]

\* Names are 1..n; objects of one kind are interchangeable, so the choices
\* are taken in non-decreasing order of option.
Choices(n, options) ==
    { [ k \in 1..n |-> options[f[k]] ] :
        f \in { g \in [1..n -> DOMAIN options] :
                  \A j \in 1..n, k \in 1..n : j <= k => g[j] <= g[k] } }

LspSets == Choices(NumLsps, LspOptions)

\* The demands of a model, named 1..n.
DemandSets == {
    << Demand("A", "B", 30) >>,
    << Demand("A", "B", 80) >>,
    << Demand("A", "C", 30) >>,
    << Demand("A", "A", 30) >>,
    << Demand("A", "B", 30), Demand("A", "B", 80) >>,
    << Demand("A", "B", 30), Demand("A", "C", 30) >>,
    << Demand("A", "B", 80), Demand("A", "C", 30) >> }

UnroutedPath == [state |-> "Unrouted", interfaces |-> <<>>, baseline_path_cost |-> 0]

EmptyPath == [state |-> "empty", interfaces |-> <<>>, baseline_path_cost |-> 0]

UnroutedDemand == [kind |-> "Unrouted", lsps |-> {}, paths |-> {}]

VARIABLES
    interface_objects,      \* interface key |-> its attributes
    reserved_bandwidth,     \* interface key |-> interface.reserved_bandwidth
    traffic,                \* interface key |-> interface.traffic
    circuit_objects,        \* self.circuit_objects: set of {interface, interface}
    rsvp_lsp_objects,       \* LSP name |-> source, dest, configured_setup_bandwidth
    lsp_path,               \* LSP name |-> lsp.path
    lsp_reserved_bandwidth, \* LSP name |-> lsp.reserved_bandwidth
    lsp_setup_bandwidth,    \* LSP name |-> lsp.setup_bandwidth
    demand_objects,         \* demand name |-> source, dest, traffic
    demand_path,            \* demand name |-> demand.path
    pc,                     \* where update_simulation stands
    lsps_todo,              \* LSPs _route_lsps has not yet placed
    group,                  \* the parallel LSP group being placed
    outcome,                \* how the last update_simulation, validate_model
                            \* or add_circuit ended
    error_data,             \* validate_model's error_data
    srlg_objects,           \* SRLG name |-> its node_objects and interface_objects
    node_srlgs,             \* node name |-> node.srlgs
    interface_srlgs,        \* interface key |-> interface.srlgs
    srlg_errors,            \* validate_model's srlg_errors
    data_file,              \* the interface lines load_model_file reads
    bad_circuit_ids,        \* load_model_file's bad_circuit_ids
    returned,               \* the last query made of the model and its result
    choices,                \* history: the LSPs placed by the current run, in
                            \* order, each with the path it was given
    reference               \* history: the result of a completed run

\* The state of the program.
model_vars == << interface_objects, reserved_bandwidth, traffic, circuit_objects,
                 rsvp_lsp_objects, lsp_path, lsp_reserved_bandwidth,
                 lsp_setup_bandwidth, demand_objects, demand_path, pc, lsps_todo,
                 group, outcome, error_data, srlg_objects, node_srlgs,
                 interface_srlgs, srlg_errors, data_file, bad_circuit_ids, returned >>

\* The history variables: written by no operation of the program.
history == << choices, reference >>

vars == << model_vars, history >>

Interfaces == DOMAIN interface_objects

Lsps == DOMAIN rsvp_lsp_objects

Demands == DOMAIN demand_objects

NoGroup == <<>>

\* ------------------------------------------------------------ interfaces

\* interface.reservable_bandwidth:
\* capacity * percent_reservable_bandwidth / 100 - reserved_bandwidth.
ReservableBandwidth(i) ==
    (interface_objects[i].capacity
        * interface_objects[i].percent_reservable_bandwidth * BwScale) \div 100
    - reserved_bandwidth[i]

\* ------------------------------------------------------- the multidigraph

\* Mutant of MakeWeightedNetworkGraphMdg: a DiGraph in place of the
\* MultiDiGraph, with one edge from a node to another.
MakeWeightedNetworkGraphDigraph(include_failed_circuits, needed_bw, rsvp_required) ==
    LET considered_interfaces ==
            IF include_failed_circuits
            THEN { i \in Interfaces : ReservableBandwidth(i) >= needed_bw }
            ELSE { i \in Interfaces : /\ interface_objects[i].failed = FALSE
                                      /\ ReservableBandwidth(i) >= needed_bw }
        edge_names ==
            IF rsvp_required
            THEN { i \in considered_interfaces : interface_objects[i].rsvp_enabled }
            ELSE considered_interfaces
    IN  { i \in edge_names :
            i = CHOOSE j \in edge_names : j[1] = i[1] /\ j[2] = i[2] }

\* _make_weighted_network_graph_mdg: the edges of G, one per interface kept.
\* Every node of the model is a vertex of G.
MakeWeightedNetworkGraphMdg(include_failed_circuits, needed_bw, rsvp_required) ==
    LET considered_interfaces ==
            IF include_failed_circuits
            THEN { i \in Interfaces : ReservableBandwidth(i) >= needed_bw }
            ELSE { i \in Interfaces : /\ interface_objects[i].failed = FALSE
                                      /\ ReservableBandwidth(i) >= needed_bw }
    IN  IF rsvp_required
        THEN { i \in considered_interfaces : interface_objects[i].rsvp_enabled }
        ELSE considered_interfaces

\* G[u][v]: the parallel edges from u to v.
EdgesBetween(G, u, v) == { i \in G : i[1] = u /\ i[2] = v }

\* networkx weighs a hop of a multigraph by its cheapest parallel edge.
HopWeight(G, u, v) == MinOf({ interface_objects[i].cost : i \in EdgesBetween(G, u, v) })

\* Sequences of distinct nodes.
NodePaths ==
    { r : r \in { p \in UNION { [1..n -> Nodes] : n \in 1..Cardinality(Nodes) } :
                    \A j \in DOMAIN p, k \in DOMAIN p : j # k => p[j] # p[k] } }

PathsInGraph(G, src, dest) ==
    { p \in NodePaths :
        /\ p[1] = src
        /\ p[Len(p)] = dest
        /\ \A k \in 1..(Len(p) - 1) : EdgesBetween(G, p[k], p[k + 1]) # {} }

NodePathWeight(G, p) == SumSeq([ k \in 1..(Len(p) - 1) |-> HopWeight(G, p[k], p[k + 1]) ])

\* nx.all_shortest_paths(G, src, dest, weight='cost'); the empty set stands
\* for NetworkXNoPath.
AllShortestPaths(G, src, dest) ==
    LET paths == PathsInGraph(G, src, dest)
        weight == [ p \in paths |-> NodePathWeight(G, p) ]
    IN  { p \in paths : \A q \in paths : weight[p] <= weight[q] }

\* Mutant of EcmpLinks: every parallel edge of the hop, whatever its cost.
EcmpLinksAnyCost(G, current_hop, next_hop) == EdgesBetween(G, current_hop, next_hop)

\* The interfaces one hop of _get_all_paths_mdg keeps: the cheapest parallel
\* edges from current_hop to next_hop.
EcmpLinks(G, current_hop, next_hop) ==
    LET values_source_hop == EdgesBetween(G, current_hop, next_hop)
        min_weight == MinOf({ interface_objects[i].cost : i \in values_source_hop })
    IN  { i \in values_source_hop : interface_objects[i].cost = min_weight }

\* _get_all_paths_mdg: for each node path, the list of its hops, each hop the
\* set of interfaces it may transit.
GetAllPathsMdg(G, nx_sp) ==
    { [ k \in 1..(Len(path) - 1) |-> EcmpLinks(G, path[k], path[k + 1]) ] : path \in nx_sp }

\* Mutant of Product: each position takes an interface of any hop.
ProductOverAllHops(path) ==
    { s \in [ DOMAIN path -> Interfaces ] :
        \A k \in DOMAIN path : \E j \in DOMAIN path : s[k] \in path[j] }

\* itertools.product(*path)
Product(path) ==
    { s \in [ DOMAIN path -> Interfaces ] : \A k \in DOMAIN path : s[k] \in path[k] }

\* Mutant of NormalizeMultidigraphPaths: one combination for each path.
NormalizeMultidigraphPathsOneEach(path_info) ==
    { CHOOSE path_option \in Product(path) : TRUE : path \in path_info }

\* _normalize_multidigraph_paths: every combination of one interface per hop.
NormalizeMultidigraphPaths(path_info) == UNION { Product(path) : path \in path_info }

PathCost(path) == SumSeq([ k \in DOMAIN path |-> interface_objects[path[k]].cost ])

Range(s) == { s[k] : k \in DOMAIN s }

\* ------------------------------------------------------------- LSP placement

Endpoints(o) == <<o.source, o.dest>>

\* A parallel LSP group: the LSPs with common source and destination.
ParallelLspGroup(g) == { l \in Lsps : Endpoints(rsvp_lsp_objects[l]) = g }

\* _route_lsps: the traffic of the demands with the group's endpoints, split
\* evenly over the LSPs of the group.
TraffOnEachGroupLsp(g) ==
    LET dmds_on_lsp_group == { d \in Demands : Endpoints(demand_objects[d]) = g }
        traffic_in_demand_group ==
            SumSet(dmds_on_lsp_group, [ d \in dmds_on_lsp_group |-> demand_objects[d].traffic ])
    IN  Bw(traffic_in_demand_group) \div Cardinality(ParallelLspGroup(g))

\* Mutant of SetupBandwidth: the configured value is not looked at.
SetupBandwidthIgnoringConfigured(l) == TraffOnEachGroupLsp(Endpoints(rsvp_lsp_objects[l]))

\* _determine_lsp_state_info, lines 896-901: the LSP's setup_bandwidth.
SetupBandwidth(l) ==
    IF rsvp_lsp_objects[l].configured_setup_bandwidth = None
    THEN TraffOnEachGroupLsp(Endpoints(rsvp_lsp_objects[l]))
    ELSE Bw(rsvp_lsp_objects[l].configured_setup_bandwidth)

\* Mutant of LspGraph: rsvp_required is left at its default.
LspGraphWithoutRsvpRequired(setup_bandwidth) ==
    MakeWeightedNetworkGraphMdg(FALSE, setup_bandwidth, FALSE)

\* Lines 903-904: the graph of the non-failed, RSVP-enabled interfaces with
\* setup_bandwidth reservable.
LspGraph(setup_bandwidth) == MakeWeightedNetworkGraphMdg(FALSE, setup_bandwidth, TRUE)

\* Lines 919-924: the interface paths of the shortest node paths nx_sp.
CandidatePathInfo(G, nx_sp) == NormalizeMultidigraphPaths(GetAllPathsMdg(G, nx_sp))

\* Lines 927-932; min() of a path with no interface raises ValueError.
CandidatePathInfoWReservableBw(candidate_path_info, setup_bandwidth) ==
    { path \in candidate_path_info :
        MinOf({ ReservableBandwidth(i) : i \in Range(path) }) >= setup_bandwidth }

\* Mutant of LowestHopCountPaths: the hop counts are not compared.
LowestHopCountPathsAnyHopCount(candidate_path_info_w_reservable_bw) ==
    candidate_path_info_w_reservable_bw

\* Lines 940-949: the paths random.choice draws from.
LowestHopCountPaths(candidate_path_info_w_reservable_bw) ==
    LET fewest_hops == MinOf({ Len(path) : path \in candidate_path_info_w_reservable_bw })
    IN  { path \in candidate_path_info_w_reservable_bw : Len(path) = fewest_hops }

\* Mutant of LspPathSearch: the search does not look at reservable bandwidth.
LspPathSearchIgnoringBandwidth(l, setup_bandwidth) ==
    LET G == MakeWeightedNetworkGraphMdg(FALSE, 0, TRUE)
        nx_sp == AllShortestPaths(G, rsvp_lsp_objects[l].source, rsvp_lsp_objects[l].dest)
        candidate_path_info == CandidatePathInfo(G, nx_sp)
    IN  [ nx_sp |-> nx_sp,
          candidate_path_info |-> candidate_path_info,
          candidate_path_info_w_reservable_bw |-> candidate_path_info \ { <<>> } ]

\* Lines 903-932: the path search of one LSP.
LspPathSearch(l, setup_bandwidth) ==
    LET G == LspGraph(setup_bandwidth)
        nx_sp == AllShortestPaths(G, rsvp_lsp_objects[l].source, rsvp_lsp_objects[l].dest)
        candidate_path_info == CandidatePathInfo(G, nx_sp)
    IN  [ nx_sp |-> nx_sp,
          candidate_path_info |-> candidate_path_info,
          candidate_path_info_w_reservable_bw |->
              IF <<>> \in candidate_path_info
              THEN {}
              ELSE CandidatePathInfoWReservableBw(candidate_path_info, setup_bandwidth) ]

\* _add_lsp_path_data
LspPathData(new_path) ==
    [state |-> "routed", interfaces |-> new_path, baseline_path_cost |-> PathCost(new_path)]

\* Mutant of ConsumeReservedBandwidth: the reservation is made on every
\* parallel interface of each hop.
ConsumeOnParallelInterfaces(path, bw) ==
    [ i \in Interfaces |->
        reserved_bandwidth[i]
            + bw * Cardinality({ k \in DOMAIN path : path[k][1] = i[1] /\ path[k][2] = i[2] }) ]

\* Mutant of ConsumeReservedBandwidth: = in place of +=.
ConsumeByOverwriting(path, bw) ==
    [ i \in Interfaces |-> IF i \in Range(path) THEN bw ELSE reserved_bandwidth[i] ]

\* Lines 954-955: interface.reserved_bandwidth += lsp.reserved_bandwidth for
\* each interface of the path.
ConsumeReservedBandwidth(path, bw) ==
    [ i \in Interfaces |->
        reserved_bandwidth[i] + bw * Cardinality({ k \in DOMAIN path : path[k] = i }) ]

\* _route_lsps places one group after the other, each LSP of a group in turn.
NextLspToRoute(l) ==
    /\ l \in lsps_todo
    /\ (\E m \in lsps_todo : Endpoints(rsvp_lsp_objects[m]) = group)
          => Endpoints(rsvp_lsp_objects[l]) = group

RouteLspsDone(todo) == todo = {}

\* ------------------------------------------------------------ demand routing

\* Mutant of LspsForDemand: unrouted LSPs are taken too.
LspsForDemandAnyState(d) ==
    { l \in Lsps : /\ rsvp_lsp_objects[l].source = demand_objects[d].source
                   /\ rsvp_lsp_objects[l].dest = demand_objects[d].dest }

\* _route_demands, lines 263-267: the LSPs that can carry the demand.
LspsForDemand(d) ==
    { l \in Lsps : /\ rsvp_lsp_objects[l].source = demand_objects[d].source
                   /\ rsvp_lsp_objects[l].dest = demand_objects[d].dest
                   /\ lsp_path[l].state # "Unrouted" }

\* Mutant of DemandGraph: the graph LSPs are routed on, of the RSVP-enabled
\* interfaces.
DemandGraphOfRsvpInterfaces == MakeWeightedNetworkGraphMdg(FALSE, 0, TRUE)

\* Line 257: the graph of the non-failed interfaces.
DemandGraph == MakeWeightedNetworkGraphMdg(FALSE, 0, FALSE)

\* Lines 260-286: the path of one demand; no shortest path is NetworkXNoPath.
RoutedDemandPath(G, d) ==
    LET lsps == LspsForDemand(d)
        nx_sp == AllShortestPaths(G, demand_objects[d].source, demand_objects[d].dest)
    IN  IF lsps # {}
        THEN [kind |-> "lsps", lsps |-> lsps, paths |-> {}]
        ELSE IF nx_sp = {}
             THEN UnroutedDemand
             ELSE [kind |-> "ip", lsps |-> {},
                   paths |-> NormalizeMultidigraphPaths(GetAllPathsMdg(G, nx_sp))]

\* How often interface i occurs in a path.
Occurrences(path, i) == Cardinality({ k \in DOMAIN path : path[k] = i })

\* _update_interface_utilization: the share of demand d's traffic on
\* interface i.
DemandTrafficOnInterface(paths, d, i) ==
    LET p == paths[d]
        k == IF p.kind = "lsps" THEN Cardinality(p.lsps) ELSE Cardinality(p.paths)
        hits == IF p.kind = "lsps"
                THEN SumSet(p.lsps, [ l \in p.lsps |-> Occurrences(lsp_path[l].interfaces, i) ])
                ELSE SumSet(p.paths, [ q \in p.paths |-> Occurrences(q, i) ])
    IN  IF p.kind = "Unrouted" \/ hits = 0
        THEN RatZero
        ELSE RatNorm(demand_objects[d].traffic * hits, k)

InterfaceUtilization(paths) ==
    [ i \in Interfaces |->
        RatSum([ d \in DOMAIN demand_objects |-> DemandTrafficOnInterface(paths, d, i) ]) ]

\* ----------------------------------------------------------------- validation

\* Mutant of GetInterfaceObjectFromNodes: the circuit_id is not compared.
GetInterfaceObjectFromNodesAnyCircuit(local_node_name, remote_node_name, circuit_id) ==
    { i \in Interfaces : i[1] = local_node_name /\ i[2] = remote_node_name }

\* get_interface_object_from_nodes with a circuit_id.
GetInterfaceObjectFromNodes(local_node_name, remote_node_name, circuit_id) ==
    { i \in Interfaces : /\ i[1] = local_node_name
                         /\ i[2] = remote_node_name
                         /\ interface_objects[i].circuit_id = circuit_id }

\* _make_circuits_multidigraph, lines 471-476: the edges of the graph of all
\* interfaces that have some edge back.
GraphInterfaces ==
    LET G == MakeWeightedNetworkGraphMdg(TRUE, 0, FALSE)
    IN  { i \in G : EdgesBetween(G, i[2], i[1]) # {} }

\* Lines 489-502: an edge whose interface, or whose reverse interface with
\* the same circuit_id, is not found ([0] of an empty list is an IndexError),
\* or is found more than once ([0] of the ModelException that
\* get_interface_object_from_nodes then returns is a TypeError).
NoMatchingInterface ==
    { i \in GraphInterfaces :
        \/ Cardinality(GetInterfaceObjectFromNodes(i[1], i[2], interface_objects[i].circuit_id)) # 1
        \/ Cardinality(GetInterfaceObjectFromNodes(i[2], i[1], interface_objects[i].circuit_id)) # 1 }

\* Lines 513-515: the edges with no edge back.
ExceptionIntsNotInCkt ==
    LET G == MakeWeightedNetworkGraphMdg(TRUE, 0, FALSE)
    IN  { i \in G : EdgesBetween(G, i[2], i[1]) = {} }

\* Lines 487-510: the circuits made of the paired interfaces.
MakeCircuits ==
    { GetInterfaceObjectFromNodes(i[1], i[2], interface_objects[i].circuit_id)
        \cup GetInterfaceObjectFromNodes(i[2], i[1], interface_objects[i].circuit_id) :
        i \in GraphInterfaces }

\* Whether _make_circuits_multidigraph(return_exception=True) raises.
MakeCircuitsRaises == NoMatchingInterface # {} \/ ExceptionIntsNotInCkt # {}

\* The reservations of the routed LSPs whose path holds interface i.
LspReservationsOn(i) ==
    LET lsps == { l \in Lsps : /\ lsp_path[l].state = "routed"
                               /\ i \in Range(lsp_path[l].interfaces) }
    IN  SumSet(lsps, [ l \in lsps |-> lsp_reserved_bandwidth[l] ])

\* _reserved_bw_error_checks
IntResBwTooHigh ==
    { i \in Interfaces :
        reserved_bandwidth[i] >
            (interface_objects[i].capacity
                * interface_objects[i].percent_reservable_bandwidth * BwScale) \div 100 }

IntResBwSumError == { i \in Interfaces : reserved_bandwidth[i] # LspReservationsOn(i) }

\* _validate_circuit_interface_capacity over the circuits.
CircuitsWithMismatchedInterfaceCapacity(circuits) ==
    { ckt \in circuits :
        \E i \in ckt, j \in ckt :
            \/ interface_objects[i].capacity # interface_objects[j].capacity
            \/ interface_objects[i].failed # interface_objects[j].failed }

\* The orders in which a loop may visit the members of a set.
Orders(S) ==
    { o \in [1..Cardinality(S) -> S] : \A j, k \in 1..Cardinality(S) : o[j] = o[k] => j = k }

\* validate_model, line 169: the SRLGs that hold node n while n.srlgs does not
\* hold them.
SrlgsNotInNodeSrlgs(n) ==
    { g \in DOMAIN srlg_objects : n \in srlg_objects[g].node_objects /\ g \notin node_srlgs[n] }

\* validate_model, lines 166-174, the SRLGs visited in `order`: the first
\* offending SRLG of a node makes the node's entry, an empty list (the
\* KeyError branch); the later ones are appended to it.
SrlgErrors(order) ==
    [ n \in { m \in Nodes : SrlgsNotInNodeSrlgs(m) # {} } |->
        LET first == CHOOSE k \in DOMAIN order :
                        /\ order[k] \in SrlgsNotInNodeSrlgs(n)
                        /\ \A j \in 1..(k - 1) : order[j] \notin SrlgsNotInNodeSrlgs(n)
        IN  SrlgsNotInNodeSrlgs(n) \ { order[first] } ]

\* Mutant of ErrorData: the circuits' interfaces are not compared.
ErrorDataWithoutCircuitCheck(circuits, srlg_errs) ==
    (IF IntResBwTooHigh # {} THEN {"int_res_bw_too_high"} ELSE {})
    \cup (IF IntResBwSumError # {} THEN {"int_res_bw_sum_error"} ELSE {})
    \cup (IF DOMAIN srlg_errs # {} THEN {"srlg_errors"} ELSE {})

\* validate_model, lines 127-184: the failed checks.
ErrorData(circuits, srlg_errs) ==
    (IF IntResBwTooHigh # {} THEN {"int_res_bw_too_high"} ELSE {})
    \cup (IF IntResBwSumError # {} THEN {"int_res_bw_sum_error"} ELSE {})
    \cup (IF CircuitsWithMismatchedInterfaceCapacity(circuits) # {}
          THEN {"circuits_with_mismatched_interface_capacity"} ELSE {})
    \cup (IF DOMAIN srlg_errs # {} THEN {"srlg_errors"} ELSE {})

\* -------------------------------------------------------------------- actions

\* No query was made.
NoQuery == [ call |-> "none" ]

\* No run is recorded.
NoReference == [ taken |-> FALSE ]

\* FlexModel.__init__ over the interfaces, LSPs and demands given: the
\* derived state of a newly constructed model.
Constructed ==
    /\ reserved_bandwidth = [ i \in DOMAIN interface_objects |-> 0 ]
    /\ traffic = [ i \in DOMAIN interface_objects |-> RatZero ]
    /\ circuit_objects = {}
    /\ lsp_path = [ l \in DOMAIN rsvp_lsp_objects |-> UnroutedPath ]
    /\ lsp_reserved_bandwidth = [ l \in DOMAIN rsvp_lsp_objects |-> Unrouted ]
    /\ lsp_setup_bandwidth = [ l \in DOMAIN rsvp_lsp_objects |-> Unrouted ]
    /\ demand_path = [ d \in DOMAIN demand_objects |-> UnroutedDemand ]
    /\ lsps_todo = {}
    /\ group = NoGroup
    /\ outcome = "none"
    /\ error_data = {}
    /\ srlg_errors = [ n \in {} |-> {} ]
    /\ bad_circuit_ids = {}
    /\ returned = NoQuery
    /\ choices = <<>>
    /\ reference = NoReference

\* A model without SRLGs, not read from a file.
NoSrlgs ==
    /\ srlg_objects = [ g \in {} |-> {} ]
    /\ node_srlgs = [ n \in Nodes |-> {} ]
    /\ interface_srlgs = [ i \in DOMAIN interface_objects |-> {} ]
    /\ data_file = <<>>

Init ==
    /\ interface_objects \in Topologies
    /\ rsvp_lsp_objects \in LspSets
    /\ demand_objects \in DemandSets
    /\ NoSrlgs
    /\ Constructed
    /\ pc = "idle"

\* Mutant of UpdateSimulation: interface traffic and demand paths are not reset.
UpdateSimulationWithoutDemandReset ==
    /\ pc = "idle"
    /\ reserved_bandwidth' = [ i \in Interfaces |-> 0 ]
    /\ lsp_path' = [ l \in Lsps |-> UnroutedPath ]
    /\ lsps_todo' = Lsps
    /\ group' = NoGroup
    /\ pc' = IF RouteLspsDone(Lsps) THEN "route_demands" ELSE "route_lsps"
    /\ outcome' = "running"
    /\ error_data' = {}
    /\ UNCHANGED << interface_objects, traffic, circuit_objects, rsvp_lsp_objects,
                    lsp_reserved_bandwidth, lsp_setup_bandwidth, demand_objects,
                    demand_path, srlg_objects, node_srlgs, interface_srlgs,
                    srlg_errors, data_file, bad_circuit_ids, returned >>

\* Mutant of UpdateSimulation: the interfaces' reserved_bandwidth is not reset.
UpdateSimulationKeepingReservations ==
    /\ pc = "idle"
    /\ traffic' = [ i \in Interfaces |-> RatZero ]
    /\ lsp_path' = [ l \in Lsps |-> UnroutedPath ]
    /\ demand_path' = [ d \in Demands |-> UnroutedDemand ]
    /\ lsps_todo' = Lsps
    /\ group' = NoGroup
    /\ pc' = IF RouteLspsDone(Lsps) THEN "route_demands" ELSE "route_lsps"
    /\ outcome' = "running"
    /\ error_data' = {}
    /\ UNCHANGED << interface_objects, reserved_bandwidth, circuit_objects,
                    rsvp_lsp_objects, lsp_reserved_bandwidth, lsp_setup_bandwidth,
                    demand_objects, srlg_objects, node_srlgs, interface_srlgs,
                    srlg_errors, data_file, bad_circuit_ids, returned >>

\* update_simulation, lines 205-239: reset the interfaces, the LSPs and the
\* demands, then start routing the LSPs.
UpdateSimulation ==
    /\ pc = "idle"
    /\ reserved_bandwidth' = [ i \in Interfaces |-> 0 ]
    /\ traffic' = [ i \in Interfaces |-> RatZero ]
    /\ lsp_path' = [ l \in Lsps |-> UnroutedPath ]
    /\ demand_path' = [ d \in Demands |-> UnroutedDemand ]
    /\ lsps_todo' = Lsps
    /\ group' = NoGroup
    /\ pc' = IF RouteLspsDone(Lsps) THEN "route_demands" ELSE "route_lsps"
    /\ outcome' = "running"
    /\ error_data' = {}
    /\ UNCHANGED << interface_objects, circuit_objects, rsvp_lsp_objects,
                    lsp_reserved_bandwidth, lsp_setup_bandwidth, demand_objects,
                    srlg_objects, node_srlgs, interface_srlgs, srlg_errors,
                    data_file, bad_circuit_ids, returned >>

\* One LSP of _determine_lsp_state_info's loop (lines 892-955), reached
\* through _route_lsps.
RouteLsp(l) ==
    LET setup_bandwidth == SetupBandwidth(l)
        search == LspPathSearch(l, setup_bandwidth)
        nx_sp == search.nx_sp
        candidate_path_info == search.candidate_path_info
        candidate_path_info_w_reservable_bw == search.candidate_path_info_w_reservable_bw
    IN
    /\ pc = "route_lsps"
    /\ NextLspToRoute(l)
    /\ lsp_setup_bandwidth' = [lsp_setup_bandwidth EXCEPT ![l] = setup_bandwidth]
    /\ IF nx_sp = {}
       THEN \* NetworkXNoPath, lines 912-916
            /\ lsp_path' = [lsp_path EXCEPT ![l] = UnroutedPath]
            /\ lsp_reserved_bandwidth' = [lsp_reserved_bandwidth EXCEPT ![l] = Unrouted]
            /\ reserved_bandwidth' = reserved_bandwidth
            /\ lsps_todo' = lsps_todo \ {l}
            /\ outcome' = outcome
       ELSE IF <<>> \in candidate_path_info
       THEN \* min() of an empty list, line 931: ValueError leaves update_simulation
            /\ lsp_path' = [lsp_path EXCEPT ![l] = EmptyPath]
            /\ lsp_reserved_bandwidth' = [lsp_reserved_bandwidth EXCEPT ![l] = setup_bandwidth]
            /\ reserved_bandwidth' = reserved_bandwidth
            /\ lsps_todo' = lsps_todo
            /\ outcome' = "ValueError"
       ELSE IF candidate_path_info_w_reservable_bw = {}
       THEN \* lines 935-938
            /\ lsp_path' = [lsp_path EXCEPT ![l] = UnroutedPath]
            /\ lsp_reserved_bandwidth' = [lsp_reserved_bandwidth EXCEPT ![l] = Unrouted]
            /\ reserved_bandwidth' = reserved_bandwidth
            /\ lsps_todo' = lsps_todo \ {l}
            /\ outcome' = outcome
       ELSE \* lines 940-955
            \E new_path \in LowestHopCountPaths(candidate_path_info_w_reservable_bw) :
                /\ lsp_path' = [lsp_path EXCEPT ![l] = LspPathData(new_path)]
                /\ lsp_reserved_bandwidth' =
                       [lsp_reserved_bandwidth EXCEPT ![l] = setup_bandwidth]
                /\ reserved_bandwidth' = ConsumeReservedBandwidth(new_path, setup_bandwidth)
                /\ lsps_todo' = lsps_todo \ {l}
                /\ outcome' = outcome
    /\ group' = Endpoints(rsvp_lsp_objects[l])
    /\ pc' = IF outcome' = "ValueError" THEN "idle"
             ELSE IF RouteLspsDone(lsps_todo') THEN "route_demands" ELSE "route_lsps"
    /\ UNCHANGED << interface_objects, traffic, circuit_objects, rsvp_lsp_objects,
                    demand_objects, demand_path, error_data, srlg_objects,
                    node_srlgs, interface_srlgs, srlg_errors, data_file, bad_circuit_ids, returned >>

\* Mutant of RouteDemands: the traffic a demand puts on an LSP is written to
\* the LSP's reserved_bandwidth.
RouteDemandsWritingLspBandwidth ==
    LET G == DemandGraph
        paths == [ d \in Demands |-> RoutedDemandPath(G, d) ]
        carried(l) == { d \in Demands : l \in paths[d].lsps }
    IN
    /\ pc = "route_demands"
    /\ demand_path' = paths
    /\ traffic' = InterfaceUtilization(paths)
    /\ lsp_reserved_bandwidth' =
          [ l \in Lsps |->
              IF carried(l) = {} THEN lsp_reserved_bandwidth[l]
              ELSE SumSet(carried(l),
                          [ d \in carried(l) |->
                              Bw(demand_objects[d].traffic) \div Cardinality(paths[d].lsps) ]) ]
    /\ pc' = "validate"
    /\ group' = NoGroup
    /\ UNCHANGED << interface_objects, reserved_bandwidth, circuit_objects,
                    rsvp_lsp_objects, lsp_path, lsp_setup_bandwidth, demand_objects,
                    lsps_todo, outcome, error_data, srlg_objects, node_srlgs,
                    interface_srlgs, srlg_errors, data_file, bad_circuit_ids, returned >>

\* _route_demands, lines 257-290: route every demand, then
\* _update_interface_utilization.
RouteDemands ==
    LET G == DemandGraph
        paths == [ d \in Demands |-> RoutedDemandPath(G, d) ]
    IN
    /\ pc = "route_demands"
    /\ demand_path' = paths
    /\ traffic' = InterfaceUtilization(paths)
    /\ pc' = "validate"
    /\ group' = NoGroup
    /\ UNCHANGED << interface_objects, reserved_bandwidth, circuit_objects,
                    rsvp_lsp_objects, lsp_path, lsp_reserved_bandwidth,
                    lsp_setup_bandwidth, demand_objects, lsps_todo,
                    outcome, error_data, srlg_objects, node_srlgs,
                    interface_srlgs, srlg_errors, data_file, bad_circuit_ids, returned >>

\* update_simulation, line 247: validate_model.
ValidateModel ==
    /\ pc = "validate"
    /\ IF MakeCircuitsRaises
       THEN \* _make_circuits_multidigraph raises: no other check runs
            /\ circuit_objects' = circuit_objects
            /\ srlg_errors' = srlg_errors
            /\ error_data' = {"ints_w_no_remote_int"}
            /\ outcome' = "ModelException"
       ELSE \E order \in Orders(DOMAIN srlg_objects) :
            /\ circuit_objects' = MakeCircuits
            /\ srlg_errors' = SrlgErrors(order)
            /\ error_data' = ErrorData(MakeCircuits, SrlgErrors(order))
            /\ outcome' = IF ErrorData(MakeCircuits, SrlgErrors(order)) = {}
                          THEN "ok" ELSE "ModelException"
    /\ pc' = "idle"
    /\ UNCHANGED << interface_objects, reserved_bandwidth, traffic, rsvp_lsp_objects,
                    lsp_path, lsp_reserved_bandwidth, lsp_setup_bandwidth,
                    demand_objects, demand_path, lsps_todo, group, srlg_objects,
                    node_srlgs, interface_srlgs, data_file, bad_circuit_ids, returned >>

\* Interface._key: the node's name and the interface's name.
InterfaceKey(i) == << i[1], i[3] >>

\* all_interface_circuit_ids: the circuit_ids of the model's interfaces.
AllInterfaceCircuitIds == { interface_objects[i].circuit_id : i \in Interfaces }

\* add_circuit, lines 594-597: Interface(name, cost, capacity, node,
\* remote node, circuit_id); the `failed` argument is passed to neither.
NewInterface(cost, capacity, circuit_id) ==
    [ cost |-> cost, capacity |-> capacity, circuit_id |-> circuit_id,
      rsvp_enabled |-> TRUE, percent_reservable_bandwidth |-> 100, failed |-> FALSE ]

\* add_circuit raises ModelException(msg): nothing else changes.
AddCircuitRaises(msg) ==
    /\ outcome' = "ModelException"
    /\ error_data' = {msg}
    /\ pc' = pc
    /\ UNCHANGED << interface_objects, reserved_bandwidth, traffic, interface_srlgs >>

\* Mutant of AddCircuit: the interface on node_a is added before the key of
\* the interface on node_b is looked up.
AddCircuitAddingBeforeSecondCheck(node_a_object, node_b_object, node_a_interface_name, node_b_interface_name, cost_intf_a, cost_intf_b, capacity, failed, circuit_id) ==
    LET int_a == << node_a_object, node_b_object, node_a_interface_name >>
        int_b == << node_b_object, node_a_object, node_b_interface_name >>
        existing_int_keys == { InterfaceKey(i) : i \in Interfaces }
        added_a == [ i \in {int_a} |-> NewInterface(cost_intf_a, capacity, circuit_id) ]
        added == added_a @@ [ i \in {int_b} |-> NewInterface(cost_intf_b, capacity, circuit_id) ]
    IN
    /\ pc = "idle"
    /\ IF circuit_id = None
       THEN AddCircuitRaises("circuit_id must be specified explicitly")
       ELSE IF circuit_id \in AllInterfaceCircuitIds
       THEN AddCircuitRaises("circuit_id value already exists in model")
       ELSE IF InterfaceKey(int_a) \in existing_int_keys
       THEN AddCircuitRaises("interface already exists in model")
       ELSE IF InterfaceKey(int_b) \in existing_int_keys
       THEN /\ interface_objects' = interface_objects @@ added_a
            /\ reserved_bandwidth' = reserved_bandwidth @@ [ i \in DOMAIN added_a |-> 0 ]
            /\ traffic' = traffic @@ [ i \in DOMAIN added_a |-> RatZero ]
            /\ interface_srlgs' = interface_srlgs @@ [ i \in DOMAIN added_a |-> {} ]
            /\ outcome' = "ModelException"
            /\ error_data' = {"interface already exists in model"}
            /\ pc' = pc
       ELSE /\ interface_objects' = interface_objects @@ added
            /\ reserved_bandwidth' = reserved_bandwidth @@ [ i \in DOMAIN added |-> 0 ]
            /\ traffic' = traffic @@ [ i \in DOMAIN added |-> RatZero ]
            /\ interface_srlgs' = interface_srlgs @@ [ i \in DOMAIN added |-> {} ]
            /\ outcome' = "running"
            /\ error_data' = {}
            /\ pc' = "validate"
    /\ UNCHANGED << circuit_objects, rsvp_lsp_objects, lsp_path, lsp_reserved_bandwidth,
                    lsp_setup_bandwidth, demand_objects, demand_path, lsps_todo, group,
                    srlg_objects, node_srlgs, srlg_errors, data_file, bad_circuit_ids, returned >>

\* add_circuit, lines 585-609; validate_model (line 611) is the next step.
AddCircuit(node_a_object, node_b_object, node_a_interface_name, node_b_interface_name, cost_intf_a, cost_intf_b, capacity, failed, circuit_id) ==
    LET int_a == << node_a_object, node_b_object, node_a_interface_name >>
        int_b == << node_b_object, node_a_object, node_b_interface_name >>
        existing_int_keys == { InterfaceKey(i) : i \in Interfaces }
        added == [ i \in {int_a} |-> NewInterface(cost_intf_a, capacity, circuit_id) ]
                 @@ [ i \in {int_b} |-> NewInterface(cost_intf_b, capacity, circuit_id) ]
    IN
    /\ pc = "idle"
    /\ IF circuit_id = None
       THEN AddCircuitRaises("circuit_id must be specified explicitly")
       ELSE IF circuit_id \in AllInterfaceCircuitIds
       THEN AddCircuitRaises("circuit_id value already exists in model")
       ELSE IF InterfaceKey(int_a) \in existing_int_keys
       THEN AddCircuitRaises("interface already exists in model")
       ELSE IF InterfaceKey(int_b) \in existing_int_keys
       THEN AddCircuitRaises("interface already exists in model")
       ELSE /\ interface_objects' = interface_objects @@ added
            /\ reserved_bandwidth' = reserved_bandwidth @@ [ i \in DOMAIN added |-> 0 ]
            /\ traffic' = traffic @@ [ i \in DOMAIN added |-> RatZero ]
            /\ interface_srlgs' = interface_srlgs @@ [ i \in DOMAIN added |-> {} ]
            /\ outcome' = "running"
            /\ error_data' = {}
            /\ pc' = "validate"
    /\ UNCHANGED << circuit_objects, rsvp_lsp_objects, lsp_path, lsp_reserved_bandwidth,
                    lsp_setup_bandwidth, demand_objects, demand_path, lsps_todo, group,
                    srlg_objects, node_srlgs, srlg_errors, data_file, bad_circuit_ids, returned >>

\* The add_circuit calls tried: between A and C, either way round, with
\* interface names 1 (in use on A) and 5 (new), circuit_id None, 1 (in use)
\* or 5 (new).
AddCircuitCalls ==
    { c \in [ node_a_object : {"A", "C"}, node_b_object : {"A", "C"},
              node_a_interface_name : {1, 5}, node_b_interface_name : {1, 5},
              failed : BOOLEAN, circuit_id : {None, 1, 5} ] :
        c.node_a_object # c.node_b_object }

\* A model is constructed from interfaces and SRLGs as given, without LSPs
\* or demands, and validate_model is called on it.
InitBuild ==
    /\ interface_objects \in ModelsToValidate
    /\ rsvp_lsp_objects = <<>>
    /\ demand_objects = <<>>
    /\ \E setup \in SrlgSetups :
          /\ srlg_objects = setup.srlg_objects
          /\ node_srlgs = setup.node_srlgs
          /\ interface_srlgs = [ i \in DOMAIN interface_objects |->
                                   { g \in DOMAIN setup.srlg_objects :
                                       <<i, g>> \in setup.interface_srlgs } ]
    /\ data_file = <<>>
    /\ Constructed
    /\ pc = "validate"

\* The call c of add_circuit, with costs 1 and 2 and capacity 200.
AddCircuitCall(c) ==
    AddCircuit(c.node_a_object, c.node_b_object, c.node_a_interface_name,
               c.node_b_interface_name, 1, 2, 200, c.failed, c.circuit_id)

\* A call of add_circuit with both ends on node A, with new interface names
\* and a new circuit_id.
AddCircuitCallsOnOneNode ==
    { [ node_a_object |-> "A", node_b_object |-> "A", node_a_interface_name |-> 5,
        node_b_interface_name |-> 6, failed |-> FALSE, circuit_id |-> 5 ] }

\* History kept when add_circuit is called: the interfaces before the call.
AddCircuitBegins ==
    reference' = [ taken |-> TRUE, interface_objects |-> interface_objects ]

NextBuild ==
    \/ ValidateModel /\ UNCHANGED history
    \/ \E c \in AddCircuitCalls \cup AddCircuitCallsOnOneNode :
          AddCircuitCall(c) /\ AddCircuitBegins /\ UNCHANGED choices

SpecBuild == InitBuild /\ [][NextBuild]_vars

Next ==
    \/ UpdateSimulation /\ UNCHANGED history
    \/ \E l \in Lsps : RouteLsp(l) /\ UNCHANGED history
    \/ RouteDemands /\ UNCHANGED history
    \/ ValidateModel /\ UNCHANGED history

Spec == Init /\ [][Next]_vars

\* ------------------------------------------------------ failures and reruns

\* fail_interface: the interface and the remote interface of its circuit are
\* failed.
FailInterface(i) ==
    /\ pc = "idle"
    /\ interface_objects' =
          [ j \in Interfaces |->
              IF j = i \/ ( /\ j[1] = i[2] /\ j[2] = i[1]
                            /\ interface_objects[j].circuit_id = interface_objects[i].circuit_id )
              THEN [ interface_objects[j] EXCEPT !.failed = TRUE ]
              ELSE interface_objects[j] ]
    /\ UNCHANGED << reserved_bandwidth, traffic, circuit_objects, rsvp_lsp_objects,
                    lsp_path, lsp_reserved_bandwidth, lsp_setup_bandwidth,
                    demand_objects, demand_path, pc, lsps_todo, group, outcome,
                    error_data, srlg_objects, node_srlgs, interface_srlgs,
                    srlg_errors, data_file, bad_circuit_ids, returned >>

\* unfail_interface: the interface and the remote interface of its circuit
\* are unfailed.
UnfailInterface(i) ==
    /\ pc = "idle"
    /\ interface_objects' =
          [ j \in Interfaces |->
              IF j = i \/ ( /\ j[1] = i[2] /\ j[2] = i[1]
                            /\ interface_objects[j].circuit_id = interface_objects[i].circuit_id )
              THEN [ interface_objects[j] EXCEPT !.failed = FALSE ]
              ELSE interface_objects[j] ]
    /\ UNCHANGED << reserved_bandwidth, traffic, circuit_objects, rsvp_lsp_objects,
                    lsp_path, lsp_reserved_bandwidth, lsp_setup_bandwidth,
                    demand_objects, demand_path, pc, lsps_todo, group, outcome,
                    error_data, srlg_objects, node_srlgs, interface_srlgs,
                    srlg_errors, data_file, bad_circuit_ids, returned >>

\* What a caller does after a first update_simulation: runs it again, or
\* fails a circuit, runs, unfails the circuit and runs.
Scenarios == { << "run" >>, << "fail", "run", "unfail", "run" >> }

Ops(events) == [ k \in DOMAIN events |-> events[k].op ]

\* The operation keeps the caller within a scenario.
InScenario(op) ==
    /\ reference.taken
    /\ \E sc \in Scenarios :
          /\ Len(reference.events) < Len(sc)
          /\ SubSeq(sc, 1, Len(reference.events) + 1) = Append(Ops(reference.events), op)

\* The operation done, with the demand paths it leaves.
Event(op) == [ op |-> op, demand_path |-> demand_path' ]

\* History kept when update_simulation ends, by returning or raising: the
\* first run is recorded as the reference, a later one as an event.
RunEnds ==
    reference' =
        IF reference.taken
        THEN [ reference EXCEPT !.events = Append(@, Event("run")) ]
        ELSE [ taken |-> TRUE,
               interface_objects |-> interface_objects',
               lsp_path |-> lsp_path',
               lsp_reserved_bandwidth |-> lsp_reserved_bandwidth',
               lsp_setup_bandwidth |-> lsp_setup_bandwidth',
               demand_path |-> demand_path',
               reserved_bandwidth |-> reserved_bandwidth',
               traffic |-> traffic',
               outcome |-> outcome',
               choices |-> choices',
               events |-> << >> ]

\* The models rerun: sound topologies of every shape, every pair of LSPs,
\* two sets of demands.
InitRerun ==
    /\ interface_objects \in { t \in Topologies :
                                 \A i \in DOMAIN t : t[i] = MakeInterface(i[3], t[i].cost, "none") }
    /\ rsvp_lsp_objects \in LspSets
    /\ demand_objects \in { << Demand("A", "B", 30), Demand("A", "B", 80) >>,
                            << Demand("A", "B", 80), Demand("A", "C", 30) >> }
    /\ NoSrlgs
    /\ Constructed
    /\ pc = "idle"

NextRerun ==
    \/ /\ ~reference.taken \/ InScenario("run")
       /\ UpdateSimulation
       /\ choices' = << >>
       /\ UNCHANGED reference
    \/ \E l \in Lsps :
          /\ RouteLsp(l)
          /\ choices' = Append(choices, << l, lsp_path'[l] >>)
          /\ IF outcome' = "ValueError" THEN RunEnds ELSE UNCHANGED reference
    \/ RouteDemands /\ UNCHANGED history
    \/ ValidateModel /\ UNCHANGED choices /\ RunEnds
    \/ \E i \in Interfaces :
          /\ InScenario("fail")
          /\ ~interface_objects[i].failed
          /\ FailInterface(i)
          /\ reference' = [ reference EXCEPT !.events = Append(@, Event("fail")) ]
          /\ UNCHANGED choices
    \/ \E i \in Interfaces :
          /\ InScenario("unfail")
          /\ interface_objects[i].failed
          /\ UnfailInterface(i)
          /\ reference' = [ reference EXCEPT !.events = Append(@, Event("unfail")) ]
          /\ UNCHANGED choices

SpecRerun == InitRerun /\ [][NextRerun]_vars

\* ---- load_model_file ----

\* The most interface lines a data file has.
MaxLines == 4

\* The interface lines tried, each as the fields line.split() returns:
\* node_name, remote_node_name, name, cost, capacity, circuit_id and
\* optionally rsvp_enabled; the last line lacks its circuit_id.
InterfaceLines ==
    { << "A", "B", 1, 1, 100, 1 >>,
      << "B", "A", 1, 1, 100, 1 >>,
      << "A", "B", 2, 1, 100, 1 >>,
      << "A", "B", 2, 1, 100, 2 >>,
      << "B", "A", 2, 1, 100, 2, "False" >>,
      << "B", "A", 2, 1, 100, 1 >>,
      << "A", "B", 3, 1, 100 >> }

\* The interface tables tried: lines[int_info_begin_index:int_info_end_index].
DataFiles ==
    UNION { [ 1..n -> InterfaceLines ] : n \in 0..MaxLines }

\* Lines 1130-1136: the sixth field of every line that has one, in order.
RECURSIVE CircuitIdList(_)
CircuitIdList(lines) ==
    IF lines = <<>> THEN <<>>
    ELSE IF Len(Head(lines)) < 6
         THEN CircuitIdList(Tail(lines))
         ELSE << Head(lines)[6] >> \o CircuitIdList(Tail(lines))

\* list.count(item).
RECURSIVE Count(_, _)
Count(list, item) ==
    IF list = <<>> THEN 0
    ELSE (IF Head(list) = item THEN 1 ELSE 0) + Count(Tail(list), item)

\* Mutant of BadCircuitIds: only a circuit_id that appears more than twice is
\* reported.
BadCircuitIdsOverTwo(circuit_id_list) ==
    { [ circuit_id |-> item, appearances |-> Count(circuit_id_list, item) ] :
        item \in { x \in Range(circuit_id_list) : Count(circuit_id_list, x) > 2 } }

\* Lines 1138-1139: bad_circuit_ids.
BadCircuitIds(circuit_id_list) ==
    { [ circuit_id |-> item, appearances |-> Count(circuit_id_list, item) ] :
        item \in { x \in Range(circuit_id_list) : Count(circuit_id_list, x) # 2 } }

\* _extract_interface_data_and_implied_nodes, lines 1221-1225: a line with
\* fewer than six fields raises.
ExtractRaises(lines) == \E n \in DOMAIN lines : Len(lines[n]) < 6

\* Lines 1203-1235: the interfaces of the lines; a line whose _key is
\* already in interface_set is disregarded.
RECURSIVE ExtractInterfaceData(_, _)
ExtractInterfaceData(lines, interface_set) ==
    IF lines = <<>> THEN interface_set
    ELSE LET line == Head(lines)
             new_interface == << line[1], line[2], line[3] >>
             rsvp_enabled_bool == IF Len(line) >= 7 THEN line[7] \in {"T", "True", "true"}
                                  ELSE TRUE
             attributes == [ cost |-> line[4], capacity |-> line[5], circuit_id |-> line[6],
                             rsvp_enabled |-> rsvp_enabled_bool,
                             percent_reservable_bandwidth |-> 100, failed |-> FALSE ]
         IN IF InterfaceKey(new_interface) \in { InterfaceKey(i) : i \in DOMAIN interface_set }
            THEN ExtractInterfaceData(Tail(lines), interface_set)
            ELSE ExtractInterfaceData(Tail(lines),
                                      interface_set @@ [ i \in {new_interface} |-> attributes ])

\* load_model_file, lines 1118-1193, for a file with interface lines only.
LoadModelFile ==
    LET bad == BadCircuitIds(CircuitIdList(data_file))
        interface_set == ExtractInterfaceData(data_file, <<>>)
    IN
    /\ pc = "load"
    /\ bad_circuit_ids' = bad
    /\ IF bad # {}
       THEN /\ outcome' = "ModelException"
            /\ error_data' = {"Each circuit_id value must appear exactly twice"}
            /\ UNCHANGED << interface_objects, reserved_bandwidth, traffic, interface_srlgs >>
       ELSE IF ExtractRaises(data_file)
       THEN /\ outcome' = "ModelException"
            /\ error_data' = {"circuit_id must be defined for line"}
            /\ UNCHANGED << interface_objects, reserved_bandwidth, traffic, interface_srlgs >>
       ELSE /\ outcome' = "none"
            /\ error_data' = {}
            /\ interface_objects' = interface_set
            /\ reserved_bandwidth' = [ i \in DOMAIN interface_set |-> 0 ]
            /\ traffic' = [ i \in DOMAIN interface_set |-> RatZero ]
            /\ interface_srlgs' = [ i \in DOMAIN interface_set |-> {} ]
    /\ pc' = "idle"
    /\ UNCHANGED << circuit_objects, rsvp_lsp_objects, lsp_path, lsp_reserved_bandwidth,
                    lsp_setup_bandwidth, demand_objects, demand_path, lsps_todo, group,
                    srlg_objects, node_srlgs, srlg_errors, data_file, returned >>

\* load_model_file is called on a data file; there is no model yet.
InitLoad ==
    /\ data_file \in DataFiles
    /\ interface_objects = <<>>
    /\ rsvp_lsp_objects = <<>>
    /\ demand_objects = <<>>
    /\ srlg_objects = [ g \in {} |-> {} ]
    /\ node_srlgs = [ n \in Nodes |-> {} ]
    /\ interface_srlgs = <<>>
    /\ Constructed
    /\ pc = "load"

NextLoad == LoadModelFile /\ UNCHANGED history

SpecLoad == InitLoad /\ [][NextLoad]_vars

\* ---- queries ----

\* get_interface_object_from_nodes without a circuit_id, lines 549-552.
InterfacesBetweenNodes(local_node_name, remote_node_name) ==
    { i \in Interfaces : i[1] = local_node_name /\ i[2] = remote_node_name }

\* _convert_nx_path_to_model_path: for each hop of the node path, the
\* interfaces between its two nodes with needed_bw reservable.
ConvertNxPathToModelPath(nx_graph_path, needed_bw) ==
    [ k \in 1..(Len(nx_graph_path) - 1) |->
        { interface \in InterfacesBetweenNodes(nx_graph_path[k], nx_graph_path[k + 1]) :
            ReservableBandwidth(interface) >= needed_bw } ]

\* get_shortest_path; a search that raises (NetworkXNoPath) returns no path
\* and the cost None.
GetShortestPath(source_node_name, dest_node_name, needed_bw) ==
    LET G == MakeWeightedNetworkGraphMdg(FALSE, needed_bw, FALSE)
        multidigraph_shortest_paths == AllShortestPaths(G, source_node_name, dest_node_name)
        converted_path == { ConvertNxPathToModelPath(path, needed_bw) :
                              path \in multidigraph_shortest_paths }
    IN  IF multidigraph_shortest_paths = {}
        THEN [ cost |-> None, path |-> {} ]
        ELSE [ cost |-> NodePathWeight(G, CHOOSE path \in multidigraph_shortest_paths : TRUE),
               path |-> NormalizeMultidigraphPaths(converted_path) ]

\* Lines 390-394: the vertices of G are the ends of its edges and the nodes
\* of the model.
GraphNodes(G) == { i[1] : i \in G } \cup { i[2] : i \in G } \cup Nodes

\* The amounts of bandwidth asked for.
NeededBw == { 0, Bw(50), Bw(80) }

\* A query changes nothing of the model.
Query(call, args, value) ==
    /\ pc = "idle"
    /\ returned' = [ call |-> call, args |-> args, value |-> value ]
    /\ UNCHANGED << interface_objects, reserved_bandwidth, traffic, circuit_objects,
                    rsvp_lsp_objects, lsp_path, lsp_reserved_bandwidth,
                    lsp_setup_bandwidth, demand_objects, demand_path, pc, lsps_todo,
                    group, outcome, error_data, srlg_objects, node_srlgs,
                    interface_srlgs, srlg_errors, data_file, bad_circuit_ids >>

CallGetShortestPath ==
    \E source_node_name \in Nodes, dest_node_name \in Nodes, needed_bw \in NeededBw :
        Query("get_shortest_path",
              [ source_node_name |-> source_node_name, dest_node_name |-> dest_node_name,
                needed_bw |-> needed_bw ],
              GetShortestPath(source_node_name, dest_node_name, needed_bw))

CallMakeWeightedNetworkGraphMdg ==
    \E include_failed_circuits \in BOOLEAN, needed_bw \in NeededBw, rsvp_required \in BOOLEAN :
        LET G == MakeWeightedNetworkGraphMdg(include_failed_circuits, needed_bw, rsvp_required)
        IN  Query("_make_weighted_network_graph_mdg",
                  [ include_failed_circuits |-> include_failed_circuits,
                    needed_bw |-> needed_bw, rsvp_required |-> rsvp_required ],
                  [ nodes |-> GraphNodes(G), edges |-> G ])

\* The path enumerator on a graph of the model and node paths of that graph
\* from one node to another.
CallGetAllPathsMdg ==
    \E needed_bw \in NeededBw, src \in Nodes, dest \in Nodes :
        LET G == MakeWeightedNetworkGraphMdg(FALSE, needed_bw, FALSE)
        IN  \E nx_sp \in SUBSET PathsInGraph(G, src, dest) :
                Query("_get_all_paths_mdg",
                      [ G |-> G, nx_sp |-> nx_sp ],
                      NormalizeMultidigraphPaths(GetAllPathsMdg(G, nx_sp)))

\* Queries are made of a newly constructed model without LSPs or demands.
InitQuery ==
    /\ interface_objects \in Topologies
    /\ rsvp_lsp_objects = <<>>
    /\ demand_objects = <<>>
    /\ NoSrlgs
    /\ Constructed
    /\ pc = "idle"

NextQuery ==
    \/ CallGetShortestPath /\ UNCHANGED history
    \/ CallMakeWeightedNetworkGraphMdg /\ UNCHANGED history
    \/ CallGetAllPathsMdg /\ UNCHANGED history

SpecQuery == InitQuery /\ [][NextQuery]_vars

\* ------------------------------------------------------------------ properties

\* update_simulation has returned without raising.
Simulated == pc = "idle" /\ outcome = "ok"

Routed(l) == lsp_path[l].state = "routed"

\* capacity * percent_reservable_bandwidth / 100
MaxReservable(i) ==
    (interface_objects[i].capacity
        * interface_objects[i].percent_reservable_bandwidth * BwScale) \div 100

\* The chains of interfaces of `allowed` leading from src to dest.
InterfaceChains(src, dest, allowed) ==
    { c \in UNION { [1..n -> allowed] : n \in 0..(Cardinality(Nodes) - 1) } :
        IF c = <<>>
        THEN src = dest
        ELSE /\ c[1][1] = src
             /\ c[Len(c)][2] = dest
             /\ \A k \in 1..(Len(c) - 1) : c[k][2] = c[k + 1][1] }

\* The traffic of the demands with endpoints g.
GroupTraffic(g) ==
    LET dmds == { d \in Demands : Endpoints(demand_objects[d]) = g }
    IN  SumSet(dmds, [ d \in dmds |-> demand_objects[d].traffic ])

\* An LSP is placed by the step: it leaves lsps_todo.
Placed(l) == l \in lsps_todo /\ l \notin lsps_todo'

\* C1: within update_simulation the first LSP is placed with every
\* interface's reserved_bandwidth and traffic at 0 and every LSP and demand
\* path 'Unrouted'; no demand is routed and no traffic attributed while an LSP
\* remains to be placed; validate_model runs, and update_simulation returns,
\* only with every LSP placed and every demand routed.
C1_StepsInOrder ==
    [][ /\ (\E l \in Lsps : Placed(l)) =>
              /\ \A d \in Demands : demand_path[d] = UnroutedDemand
              /\ \A i \in Interfaces : traffic[i] = RatZero
              /\ \A m \in lsps_todo : lsp_path[m] = UnroutedPath
              /\ lsps_todo = Lsps => \A i \in Interfaces : reserved_bandwidth[i] = 0
        /\ (demand_path' # demand_path /\ \E d \in Demands : demand_path'[d] # UnroutedDemand)
              => lsps_todo = {}
        /\ (\E i \in Interfaces : traffic'[i] # RatZero /\ traffic'[i] # traffic[i])
              => lsps_todo = {}
        /\ (outcome' # outcome /\ outcome' \in {"ok", "ModelException"}) =>
              /\ pc = "validate"
              /\ lsps_todo = {}
              /\ demand_path = [ d \in Demands |-> RoutedDemandPath(DemandGraph, d) ]
              /\ traffic = InterfaceUtilization(demand_path)
      ]_vars

C1_Witness ==
    /\ Simulated
    /\ \E l \in Lsps : Routed(l)
    /\ \E d \in Demands : demand_path[d].kind = "ip"
    /\ \E i \in Interfaces : traffic[i] # RatZero

\* C2: every interface's reserved_bandwidth is at most
\* capacity * percent_reservable_bandwidth / 100, in every state of every
\* simulation, whatever the LSPs, demands and placement order.
C2_ReservedWithinReservable ==
    \A i \in Interfaces : reserved_bandwidth[i] <= MaxReservable(i)

C2_Witness ==
    /\ Simulated
    /\ \E i \in Interfaces :
          /\ interface_objects[i].percent_reservable_bandwidth < 100
          /\ reserved_bandwidth[i] > 0
    /\ \E l \in Lsps : ~Routed(l) /\ rsvp_lsp_objects[l].source # rsvp_lsp_objects[l].dest

\* C3: every interface's reserved_bandwidth is the sum of the
\* reserved_bandwidth of the routed LSPs whose path holds it; unrouted LSPs
\* add nothing.
C3_ReservedIsSumOfLsps ==
    \A i \in Interfaces :
        reserved_bandwidth[i] =
            LET on == { l \in Lsps : Routed(l) /\ \E k \in DOMAIN lsp_path[l].interfaces :
                                                      lsp_path[l].interfaces[k] = i }
            IN  SumSet(on, [ l \in on |-> lsp_reserved_bandwidth[l] ])

\* Two routed LSPs with different reservations share an interface.
C3_Witness ==
    /\ Simulated
    /\ \E i \in Interfaces : \E l \in Lsps, m \in Lsps :
          /\ Routed(l) /\ i \in Range(lsp_path[l].interfaces)
          /\ Routed(m) /\ i \in Range(lsp_path[m].interfaces)
          /\ 0 < lsp_reserved_bandwidth[l]
          /\ lsp_reserved_bandwidth[l] < lsp_reserved_bandwidth[m]

\* C4: when a step commits an LSP to a path, every interface of that path
\* had reservable_bandwidth >= the LSP's setup_bandwidth before the step.
C4_ReservableBeforeCommit ==
    [][ \A l \in Lsps :
          (Placed(l) /\ lsp_path'[l].state = "routed") =>
              \A i \in Range(lsp_path'[l].interfaces) :
                  ReservableBandwidth(i) >= lsp_setup_bandwidth'[l]
      ]_vars

\* Two LSPs are committed over an interface that is then left with less
\* reservable bandwidth than either asked for.
C4_Witness ==
    /\ pc = "route_demands"
    /\ \E l \in Lsps, m \in Lsps :
          /\ l # m
          /\ Routed(l) /\ Routed(m)
          /\ \E i \in Range(lsp_path[l].interfaces) \cap Range(lsp_path[m].interfaces) :
                /\ ReservableBandwidth(i) < lsp_setup_bandwidth[l]
                /\ ReservableBandwidth(i) < lsp_setup_bandwidth[m]

\* C5: after update_simulation, a demand with at least one routed LSP between
\* its endpoints has as path exactly the routed LSPs with those endpoints and
\* no IP interface path.
C5_DemandRidesRoutedLsps ==
    Simulated =>
        \A d \in Demands :
            LET routed == { l \in Lsps : /\ Endpoints(rsvp_lsp_objects[l]) = Endpoints(demand_objects[d])
                                         /\ Routed(l) }
            IN  routed # {} =>
                    /\ demand_path[d].kind = "lsps"
                    /\ demand_path[d].lsps = routed
                    /\ demand_path[d].paths = {}

C5_Witness ==
    /\ Simulated
    /\ \E d \in Demands, l \in Lsps, m \in Lsps :
          /\ Endpoints(rsvp_lsp_objects[l]) = Endpoints(demand_objects[d])
          /\ Endpoints(rsvp_lsp_objects[m]) = Endpoints(demand_objects[d])
          /\ Routed(l)
          /\ lsp_path[m] = UnroutedPath
          /\ demand_path[d].lsps = {l}

\* C6: after update_simulation, all interface sequences of a demand routed
\* by IP ECMP cost the same, the least cost of a chain of non-failed
\* interfaces with reservable bandwidth >= 0 from its source to its
\* destination.
C6_EcmpPathsAtMinimumCost ==
    Simulated =>
        \A d \in Demands :
            demand_path[d].kind = "ip" =>
                LET allowed == { i \in Interfaces : /\ ~interface_objects[i].failed
                                                    /\ ReservableBandwidth(i) >= 0 }
                    chains == InterfaceChains(demand_objects[d].source,
                                              demand_objects[d].dest, allowed)
                IN  \A p \in demand_path[d].paths :
                        /\ p \in chains
                        /\ \A c \in chains : PathCost(p) <= PathCost(c)

\* A demand on IP ECMP over a hop with parallel interfaces of different cost.
C6_Witness ==
    /\ Simulated
    /\ \E d \in Demands :
          /\ demand_path[d].kind = "ip"
          /\ \E p \in demand_path[d].paths : \E k \in DOMAIN p : \E j \in Interfaces :
                /\ j[1] = p[k][1] /\ j[2] = p[k][2]
                /\ ~interface_objects[j].failed
                /\ interface_objects[j].cost > interface_objects[p[k]].cost

\* The setup bandwidth C7 states: the configured value, else the group's
\* demand traffic over the number of LSPs of the group.
IsClaimedSetupBandwidth(l, bw) ==
    IF rsvp_lsp_objects[l].configured_setup_bandwidth # None
    THEN bw = Bw(rsvp_lsp_objects[l].configured_setup_bandwidth)
    ELSE bw * Cardinality(ParallelLspGroup(Endpoints(rsvp_lsp_objects[l])))
            = Bw(GroupTraffic(Endpoints(rsvp_lsp_objects[l])))

\* C7 as stated: after update_simulation every LSP's setup_bandwidth and
\* reserved_bandwidth both are the configured value, else the group's
\* traffic over the number of its LSPs.
C7_Original ==
    Simulated =>
        \A l \in Lsps :
            /\ IsClaimedSetupBandwidth(l, lsp_setup_bandwidth[l])
            /\ IsClaimedSetupBandwidth(l, lsp_reserved_bandwidth[l])

\* C7 as amended: after update_simulation every LSP's setup_bandwidth is the
\* configured value, else the group's traffic over the number of its LSPs;
\* reserved_bandwidth equals setup_bandwidth for a routed LSP and is
\* 'Unrouted' for an unrouted one.
C7_SetupAndReservedBandwidth ==
    Simulated =>
        \A l \in Lsps :
            /\ IsClaimedSetupBandwidth(l, lsp_setup_bandwidth[l])
            /\ Routed(l) => lsp_reserved_bandwidth[l] = lsp_setup_bandwidth[l]
            /\ ~Routed(l) => lsp_reserved_bandwidth[l] = Unrouted

\* Two auto-bandwidth LSPs share an 80-unit demand and get 40 each, and a
\* configured LSP keeps its value beside demand traffic.
C7_Witness ==
    /\ Simulated
    /\ \/ /\ \A l \in Lsps : /\ rsvp_lsp_objects[l].configured_setup_bandwidth = None
                             /\ Endpoints(rsvp_lsp_objects[l]) = <<"A", "B">>
                             /\ Routed(l)
                             /\ lsp_reserved_bandwidth[l] * Cardinality(Lsps) = Bw(80)
          /\ GroupTraffic(<<"A", "B">>) = 80
       \/ \E l \in Lsps : /\ rsvp_lsp_objects[l].configured_setup_bandwidth = 80
                          /\ Routed(l)
                          /\ GroupTraffic(Endpoints(rsvp_lsp_objects[l])) = 30
                          /\ lsp_reserved_bandwidth[l] = Bw(80)

\* No chain of non-failed, RSVP-enabled interfaces with the LSP's setup
\* bandwidth reservable leads from its source to its destination.
NoEligiblePath(l) ==
    \E bw \in { SetupBandwidth(l) } :
        /\ IsClaimedSetupBandwidth(l, bw)
        /\ InterfaceChains(rsvp_lsp_objects[l].source, rsvp_lsp_objects[l].dest,
                           { i \in Interfaces : /\ ~interface_objects[i].failed
                                                /\ interface_objects[i].rsvp_enabled
                                                /\ ReservableBandwidth(i) >= bw }) = {}

\* C8: placing an LSP that has no eligible path raises nothing: the LSP gets
\* path and reserved_bandwidth 'Unrouted', no interface's reserved_bandwidth
\* changes, and the placement goes on with the LSPs that remain.
C8_UnroutedLspIsNotAnError ==
    [][ \A l \in Lsps :
          (RouteLsp(l) /\ NoEligiblePath(l)) =>
              /\ outcome' = "running"
              /\ lsp_path'[l] = UnroutedPath
              /\ lsp_reserved_bandwidth'[l] = Unrouted
              /\ reserved_bandwidth' = reserved_bandwidth
              /\ lsps_todo' = lsps_todo \ {l}
              /\ pc' = IF lsps_todo' = {} THEN "route_demands" ELSE "route_lsps"
      ]_vars

\* An LSP was left unrouted for want of bandwidth and a later one of its
\* group was placed.
C8_Witness ==
    /\ pc = "route_demands"
    /\ \E l \in Lsps, m \in Lsps :
          /\ Endpoints(rsvp_lsp_objects[l]) = Endpoints(rsvp_lsp_objects[m])
          /\ lsp_path[l] = UnroutedPath
          /\ lsp_reserved_bandwidth[l] = Unrouted
          /\ Routed(m)
          /\ lsp_setup_bandwidth[m] < lsp_setup_bandwidth[l]
          /\ \E i \in Range(lsp_path[m].interfaces) :
                ReservableBandwidth(i) + lsp_reserved_bandwidth[m] < lsp_setup_bandwidth[l]

\* C9: while LSPs are placed, no step changes the path or the
\* reserved_bandwidth of an LSP already committed to a path, and no step
\* lowers an interface's reserved_bandwidth.
C9_NoPreemption ==
    [][ pc = "route_lsps" =>
          /\ \A m \in Lsps \ lsps_todo :
                Routed(m) => /\ lsp_path'[m] = lsp_path[m]
                             /\ lsp_reserved_bandwidth'[m] = lsp_reserved_bandwidth[m]
          /\ \A i \in Interfaces : reserved_bandwidth'[i] >= reserved_bandwidth[i]
      ]_vars

\* Two LSPs are committed over a common interface.
C9_Witness ==
    /\ pc = "route_demands"
    /\ \E l \in Lsps, m \in Lsps :
          /\ l # m
          /\ Routed(l) /\ Routed(m)
          /\ lsp_reserved_bandwidth[l] > 0
          /\ lsp_reserved_bandwidth[m] > 0
          /\ Range(lsp_path[l].interfaces) \cap Range(lsp_path[m].interfaces) # {}

\* Scenario S5: one circuit A-B of capacity 100, all of it reservable; an
\* auto-bandwidth LSP (1) and an LSP with configured_setup_bandwidth 80 (2),
\* both A->B; one demand A->B of traffic 30.
ScenarioS5 ==
    /\ Interfaces = InterfacesOfCircuit(1)
    /\ \A i \in Interfaces : interface_objects[i] = MakeInterface(1, 1, "none")
    /\ rsvp_lsp_objects = << LspOptions[1], LspOptions[2] >>
    /\ demand_objects = << Demand("A", "B", 30) >>

\* C10 as stated: in S5 the configured LSP is routed with reserved_bandwidth
\* 80, the auto-bandwidth LSP is 'Unrouted' and the A->B interface has
\* reserved_bandwidth 80.
C10_Original ==
    (ScenarioS5 /\ Simulated) =>
        /\ Routed(2) /\ lsp_reserved_bandwidth[2] = Bw(80)
        /\ lsp_path[1] = UnroutedPath /\ lsp_reserved_bandwidth[1] = Unrouted
        /\ reserved_bandwidth[<<"A", "B", 1>>] = Bw(80)

\* C10 as amended: in S5 the configured LSP is routed with reserved_bandwidth
\* 80, the auto-bandwidth LSP is routed with reserved_bandwidth 15 (the
\* demand's 30 over the 2 LSPs of the group), and the A->B interface has
\* reserved_bandwidth 95.
C10_ScenarioS5 ==
    (ScenarioS5 /\ Simulated) =>
        /\ Routed(2) /\ lsp_reserved_bandwidth[2] = Bw(80)
        /\ Routed(1) /\ lsp_reserved_bandwidth[1] = Bw(15)
        /\ lsp_path[1].interfaces = << <<"A", "B", 1>> >>
        /\ lsp_path[2].interfaces = << <<"A", "B", 1>> >>
        /\ reserved_bandwidth[<<"A", "B", 1>>] = Bw(95)

C10_Witness == ScenarioS5 /\ Simulated

\* ------------------------------------------------- properties of validation

\* validate_model runs in the step.
ValidationStep == pc = "validate" /\ pc' = "idle"

\* validate_model has returned without raising.
Validated == pc = "idle" /\ outcome = "ok"

\* Interfaces i and j are the two ends of a circuit: oriented oppositely,
\* with the same circuit_id.
Opposite(i, j) ==
    /\ i[1] = j[2]
    /\ i[2] = j[1]
    /\ interface_objects[i].circuit_id = interface_objects[j].circuit_id

\* The interfaces with no reverse interface of their circuit_id.
InterfacesWithoutReverse == { i \in Interfaces : ~\E j \in Interfaces : Opposite(i, j) }

\* The pairs of ends of one circuit that differ in capacity or failed state.
MismatchedEnds ==
    { p \in Interfaces \X Interfaces :
        /\ Opposite(p[1], p[2])
        /\ \/ interface_objects[p[1]].capacity # interface_objects[p[2]].capacity
           \/ interface_objects[p[1]].failed # interface_objects[p[2]].failed }

\* The member nodes of SRLGs that do not list the SRLG, each with the SRLG.
NodeSrlgAsymmetries ==
    { p \in Nodes \X DOMAIN srlg_objects :
        p[1] \in srlg_objects[p[2]].node_objects /\ p[2] \notin node_srlgs[p[1]] }

\* The member interfaces of SRLGs that do not list the SRLG, each with the SRLG.
InterfaceSrlgAsymmetries ==
    { p \in Interfaces \X DOMAIN srlg_objects :
        p[1] \in srlg_objects[p[2]].interface_objects /\ p[2] \notin interface_srlgs[p[1]] }

\* The checks of validate_model that the model fails.
FailedChecks ==
    (IF InterfacesWithoutReverse # {} THEN {"ints_w_no_remote_int"} ELSE {})
    \cup (IF MismatchedEnds # {} THEN {"circuits_with_mismatched_interface_capacity"} ELSE {})
    \cup (IF NodeSrlgAsymmetries # {} THEN {"srlg_errors"} ELSE {})
    \cup (IF \E i \in Interfaces : reserved_bandwidth[i] > MaxReservable(i)
          THEN {"int_res_bw_too_high"} ELSE {})
    \cup (IF \E i \in Interfaces : reserved_bandwidth[i] # LspReservationsOn(i)
          THEN {"int_res_bw_sum_error"} ELSE {})

\* C11: validate_model raises if and only if some check fails, and the data
\* of the one exception it raises lists every failed check, an interface
\* without reverse interface together with any other failure.
C11_Original ==
    [][ ValidationStep =>
          /\ outcome' = IF FailedChecks = {} THEN "ok" ELSE "ModelException"
          /\ error_data' = FailedChecks
      ]_vars

\* C12: when validate_model has returned without raising, every interface
\* is in exactly one circuit of circuit_objects, every circuit is two
\* interfaces of one circuit_id oriented oppositely, and no interface lacks
\* a reverse interface of its circuit_id.
C12_CircuitsPairInterfaces ==
    Validated =>
        /\ \A i \in Interfaces : Cardinality({ ckt \in circuit_objects : i \in ckt }) = 1
        /\ \A ckt \in circuit_objects :
              /\ Cardinality(ckt) = 2
              /\ \A i \in ckt, j \in ckt : i # j => Opposite(i, j)
        /\ InterfacesWithoutReverse = {}

\* A model with two parallel circuits between A and B has validated.
C12_Witness ==
    /\ Validated
    /\ \E c1 \in circuit_objects, c2 \in circuit_objects :
          /\ c1 # c2
          /\ \A i \in c1 \cup c2 : {i[1], i[2]} = {"A", "B"}

\* C13: validate_model raises whenever the two interfaces of some circuit
\* differ in capacity or in failed state.
C13_MismatchedEndsRaise ==
    [][ (ValidationStep /\ MismatchedEnds # {}) => outcome' = "ModelException" ]_vars

\* validate_model has reported a circuit whose ends differ in failed state
\* only, in a model with nothing else wrong.
C13_Witness ==
    /\ pc = "idle"
    /\ outcome = "ModelException"
    /\ error_data = {"circuits_with_mismatched_interface_capacity"}
    /\ \A p \in MismatchedEnds :
          interface_objects[p[1]].capacity = interface_objects[p[2]].capacity

\* C14: validate_model raises whenever a member node or a member interface
\* of an SRLG does not list the SRLG, and the report names every such member
\* with every such SRLG.
C14_Original ==
    [][ (ValidationStep /\ InterfacesWithoutReverse = {}) =>
          /\ (NodeSrlgAsymmetries # {} \/ InterfaceSrlgAsymmetries # {})
                => outcome' = "ModelException"
          /\ \A p \in NodeSrlgAsymmetries :
                p[1] \in DOMAIN srlg_errors' /\ p[2] \in srlg_errors'[p[1]]
      ]_vars

\* ------------------------------------------------------ properties of reruns

\* The state update_simulation leaves is the state the reference run left.
SameResultAsReference ==
    /\ lsp_path = reference.lsp_path
    /\ lsp_reserved_bandwidth = reference.lsp_reserved_bandwidth
    /\ demand_path = reference.demand_path
    /\ reserved_bandwidth = reference.reserved_bandwidth
    /\ traffic = reference.traffic
    /\ outcome = reference.outcome

\* update_simulation has ended after the caller went through scenario sc
\* since the reference run, placing the LSPs in the order and on the paths
\* of the reference run.
Replayed(sc) ==
    /\ pc = "idle"
    /\ reference.taken
    /\ Ops(reference.events) = sc
    /\ interface_objects = reference.interface_objects
    /\ choices = reference.choices

\* C15: a second update_simulation, run right after the first with the same
\* placement order and tie-break choices, leaves the LSP paths and reserved
\* bandwidths, the demand paths and the interfaces' reserved_bandwidth and
\* traffic that the first left.
C15_RerunIsIdempotent == Replayed(<< "run" >>) => SameResultAsReference

\* Two LSPs contend, a demand is routed, and the second run has replayed
\* the first.
C15_Witness ==
    /\ Replayed(<< "run" >>)
    /\ outcome = "ok"
    /\ \E l \in Lsps, m \in Lsps : Routed(l) /\ lsp_path[m] = UnroutedPath
    /\ \E d \in Demands : demand_path[d].kind = "ip"
    /\ \E i \in Interfaces : reserved_bandwidth[i] > 0 /\ traffic[i] # RatZero

C17_StagesKeepToTheirState ==
    [][ /\ pc = "route_demands" =>
              UNCHANGED << lsp_path, lsp_setup_bandwidth, lsp_reserved_bandwidth,
                           reserved_bandwidth >>
        /\ pc = "route_lsps" => UNCHANGED << traffic, demand_path >>
      ]_vars

\* Demands were routed over LSPs and over IP after LSPs were placed; one LSP
\* carries less demand traffic than it reserves.
C17_Witness ==
    /\ pc = "validate"
    /\ \E d \in Demands : demand_path[d].kind = "lsps"
    /\ \E d \in Demands : demand_path[d].kind = "ip"
    /\ \E l \in Lsps : Routed(l) /\ lsp_reserved_bandwidth[l] = Bw(80)
                       /\ GroupTraffic(Endpoints(rsvp_lsp_objects[l])) = 30

\* ---- properties of add_circuit ----

\* The interfaces a step added to the model.
AddedInterfaces == DOMAIN interface_objects' \ DOMAIN interface_objects

\* The call c must be refused: no circuit_id, a circuit_id in use, or an
\* interface name in use on its node.
MustBeRefused(c) ==
    \/ c.circuit_id = None
    \/ \E i \in Interfaces : interface_objects[i].circuit_id = c.circuit_id
    \/ \E i \in Interfaces : i[1] = c.node_a_object /\ i[3] = c.node_a_interface_name
    \/ \E i \in Interfaces : i[1] = c.node_b_object /\ i[3] = c.node_b_interface_name

C19_Original ==
    [][ \A c \in AddCircuitCalls :
          (AddCircuitCall(c) /\ c.failed) =>
             \A i \in AddedInterfaces : interface_objects'[i].failed
      ]_vars

\* ---- properties of load_model_file ----

\* load_model_file has ended.
Loaded == pc = "idle"

\* The number of lines of the data file whose circuit_id is cid.
Appearances(cid) ==
    Cardinality({ n \in DOMAIN data_file :
                    Len(data_file[n]) >= 6 /\ data_file[n][6] = cid })

\* The circuit_ids of the data file that do not appear exactly twice.
OffendingCircuitIds ==
    { cid \in { data_file[n][6] : n \in { m \in DOMAIN data_file : Len(data_file[m]) >= 6 } } :
        Appearances(cid) # 2 }

\* C20: when some circuit_id of the interface table does not appear exactly
\* twice, load_model_file raises ModelException, returns no model, and the
\* error lists every such circuit_id with the number of times it appears;
\* when every circuit_id appears exactly twice, this check raises nothing.
C20_CircuitIdsAppearTwice ==
    Loaded =>
      IF OffendingCircuitIds # {}
      THEN /\ outcome = "ModelException"
           /\ error_data = {"Each circuit_id value must appear exactly twice"}
           /\ Interfaces = {}
           /\ bad_circuit_ids =
                 { [ circuit_id |-> cid, appearances |-> Appearances(cid) ] :
                     cid \in OffendingCircuitIds }
      ELSE /\ bad_circuit_ids = {}
           /\ error_data # {"Each circuit_id value must appear exactly twice"}

\* A file in which circuit_id 1 appears three times and circuit_id 2 once
\* was refused.
C20_Witness ==
    /\ Loaded
    /\ bad_circuit_ids = { [ circuit_id |-> 1, appearances |-> 3 ],
                           [ circuit_id |-> 2, appearances |-> 1 ] }

\* Two interface lines of the data file name the same interface of the same
\* node.
DuplicateInterfaceNames ==
    \E m \in DOMAIN data_file, n \in DOMAIN data_file :
        /\ m # n
        /\ data_file[m][1] = data_file[n][1]
        /\ data_file[m][3] = data_file[n][3]

\* C21: loading a file in which two interface lines have the same node and
\* the same interface name raises a load error and returns no model.
C21_Original ==
    (Loaded /\ DuplicateInterfaceNames) =>
        /\ outcome = "ModelException"
        /\ Interfaces = {}

\* ---- properties of the queries ----

\* C22: every path get_shortest_path returns consists of non-failed
\* interfaces with needed_bw reservable, and its interface costs add up to
\* the cost returned.
C22_Original ==
    returned.call = "get_shortest_path" =>
        \A path \in returned.value.path :
            /\ \A k \in DOMAIN path :
                  /\ ~interface_objects[path[k]].failed
                  /\ ReservableBandwidth(path[k]) >= returned.args.needed_bw
            /\ PathCost(path) = returned.value.cost

\* C23: the graph of _make_weighted_network_graph_mdg has an edge for
\* interface i if and only if (include_failed or i is not failed) and
\* i.reservable_bandwidth >= needed_bw and (not rsvp_required or
\* i.rsvp_enabled), parallel interfaces each with their own edge; every node
\* of the model is a vertex.
C23_GraphEdgesAndNodes ==
    returned.call = "_make_weighted_network_graph_mdg" =>
        LET args == returned.args
            eligible(i) ==
                /\ args.include_failed_circuits \/ ~interface_objects[i].failed
                /\ ReservableBandwidth(i) >= args.needed_bw
                /\ ~args.rsvp_required \/ interface_objects[i].rsvp_enabled
        IN  /\ \A i \in Interfaces : i \in returned.value.edges <=> eligible(i)
            /\ returned.value.edges \subseteq Interfaces
            /\ \A u \in Nodes, v \in Nodes :
                  Cardinality({ i \in returned.value.edges : i[1] = u /\ i[2] = v })
                      = Cardinality({ i \in Interfaces : i[1] = u /\ i[2] = v /\ eligible(i) })
            /\ Nodes \subseteq returned.value.nodes

\* The graph of the non-failed RSVP interfaces with 50 reservable was built:
\* it has both parallel edges from A to B, lacks an edge for some interface,
\* and has C as a vertex without edges.
C23_Witness ==
    /\ returned.call = "_make_weighted_network_graph_mdg"
    /\ returned.args = [ include_failed_circuits |-> FALSE, needed_bw |-> Bw(50),
                         rsvp_required |-> TRUE ]
    /\ { <<"A", "B", 1>>, <<"A", "B", 2>> } \subseteq returned.value.edges
    /\ returned.value.edges # Interfaces
    /\ "C" \in returned.value.nodes
    /\ \A i \in returned.value.edges : i[1] # "C" /\ i[2] # "C"

\* The cheapest edges of G from u to v.
MinimumCostEdges(G, u, v) ==
    { i \in G : /\ i[1] = u /\ i[2] = v
                /\ \A j \in G : (j[1] = u /\ j[2] = v) =>
                                    interface_objects[i].cost <= interface_objects[j].cost }

RECURSIVE ProductOfSeq(_)
ProductOfSeq(s) == IF s = <<>> THEN 1 ELSE Head(s) * ProductOfSeq(Tail(s))

\* The number of ways to choose one cheapest edge at each hop of node path p.
Combinations(G, p) ==
    ProductOfSeq([ k \in 1..(Len(p) - 1) |->
                     Cardinality(MinimumCostEdges(G, p[k], p[k + 1])) ])

\* C24: for node paths nx_sp, _get_all_paths_mdg followed by
\* _normalize_multidigraph_paths returns one interface sequence for every
\* choice, at each hop, of one cheapest edge between the hop's nodes: as
\* many sequences as the sum over the node paths of the product of the
\* per-hop numbers of cheapest edges, none with a dearer parallel edge.
C24_OneSequencePerCombination ==
    returned.call = "_get_all_paths_mdg" =>
        LET G == returned.args.G
            nx_sp == returned.args.nx_sp
        IN  /\ Cardinality(returned.value)
                  = SumSet(nx_sp, [ p \in nx_sp |-> Combinations(G, p) ])
            /\ \A s \in returned.value :
                  \E p \in nx_sp :
                      /\ Len(s) = Len(p) - 1
                      /\ \A k \in DOMAIN s : s[k] \in MinimumCostEdges(G, p[k], p[k + 1])

\* The enumerator was given the node path A-B-C of a graph with two parallel
\* edges of equal cost from A to B: it returned two sequences of two hops.
C24_Witness ==
    /\ returned.call = "_get_all_paths_mdg"
    /\ returned.args.nx_sp = { <<"A", "B", "C">> }
    /\ \E i \in returned.args.G, j \in returned.args.G :
          /\ i # j
          /\ i[1] = "A" /\ i[2] = "B" /\ j[1] = "A" /\ j[2] = "B"
          /\ interface_objects[i].cost = interface_objects[j].cost
    /\ Cardinality(returned.value) = 2

\* ---- properties of the paths ----

\* The nodes of a chain of interfaces, in order.
NodesOfChain(c) == << c[1][1] >> \o [ k \in DOMAIN c |-> c[k][2] ]

\* A chain that visits no node and passes no interface twice.
IsSimpleChain(c) ==
    /\ c # <<>>
    /\ LET nodes == NodesOfChain(c)
       IN  \A j \in DOMAIN nodes, k \in DOMAIN nodes : j # k => nodes[j] # nodes[k]
    /\ \A j \in DOMAIN c, k \in DOMAIN c : j # k => c[j] # c[k]

\* The eligible candidate paths of LSP l for setup bandwidth bw: the simple
\* chains of non-failed RSVP interfaces with bw reservable from its source to
\* its destination, of the least cost of such chains.
EligibleCandidates(l, bw) ==
    LET allowed == { i \in Interfaces : /\ ~interface_objects[i].failed
                                        /\ interface_objects[i].rsvp_enabled
                                        /\ ReservableBandwidth(i) >= bw }
        chains == { c \in InterfaceChains(rsvp_lsp_objects[l].source,
                                          rsvp_lsp_objects[l].dest, allowed) :
                      IsSimpleChain(c) }
    IN  { p \in chains : \A c \in chains : PathCost(p) <= PathCost(c) }

\* Those of the eligible candidates that have the fewest hops.
FewestHopsCandidates(l, bw) ==
    LET eligible == EligibleCandidates(l, bw)
    IN  { p \in eligible : \A c \in eligible : Len(p) <= Len(c) }

\* The paths random.choice draws from when LSP l is placed next (line 952).
PathsDrawnFrom(l) ==
    LET search == LspPathSearch(l, SetupBandwidth(l))
    IN  IF search.candidate_path_info_w_reservable_bw = {}
        THEN {}
        ELSE LowestHopCountPaths(search.candidate_path_info_w_reservable_bw)

\* C25: the path given to an LSP that is routed is one of its eligible
\* candidate paths with the fewest hops, and the paths the choice is drawn
\* from are all of those and no other.
C25_FewestHopsAmongEligible ==
    /\ [][ \A l \in Lsps :
              (Placed(l) /\ lsp_path'[l].state = "routed") =>
                  lsp_path'[l].interfaces \in FewestHopsCandidates(l, lsp_setup_bandwidth'[l])
         ]_vars
    /\ [](\A l \in Lsps :
              (pc = "route_lsps" /\ NextLspToRoute(l)) =>
                  PathsDrawnFrom(l) = FewestHopsCandidates(l, SetupBandwidth(l)))

\* An LSP from A to C is routed on the circuit from A to C while the path by
\* B is eligible and costs the same.
C25_Witness ==
    /\ pc = "route_demands"
    /\ \E l \in Lsps :
          /\ Routed(l)
          /\ Len(lsp_path[l].interfaces) = 1
          /\ lsp_path[l].interfaces[1][2] = "C"
          /\ \E i \in Interfaces, j \in Interfaces :
                /\ i[1] = "A" /\ i[2] = "B" /\ j[1] = "B" /\ j[2] = "C"
                /\ ~interface_objects[i].failed /\ ~interface_objects[j].failed
                /\ interface_objects[i].rsvp_enabled /\ interface_objects[j].rsvp_enabled
                /\ PathCost(<< i, j >>) = lsp_path[l].baseline_path_cost

\* C26: after update_simulation, no path of a routed LSP holds an interface
\* that is failed or not RSVP-enabled.
C26_LspPathsAvoidFailedAndNonRsvp ==
    Simulated =>
        \A l \in Lsps :
            Routed(l) =>
                \A k \in DOMAIN lsp_path[l].interfaces :
                    /\ ~interface_objects[lsp_path[l].interfaces[k]].failed
                    /\ interface_objects[lsp_path[l].interfaces[k]].rsvp_enabled

\* An LSP from A to B is routed on one of two parallel circuits while the
\* other, cheaper or as cheap, is failed or not RSVP-enabled.
C26_Witness ==
    /\ Simulated
    /\ \E l \in Lsps, i \in Interfaces :
          /\ Routed(l)
          /\ i[1] = "A" /\ i[2] = "B"
          /\ interface_objects[i].failed \/ ~interface_objects[i].rsvp_enabled
          /\ interface_objects[i].cost <= lsp_path[l].baseline_path_cost
          /\ Len(lsp_path[l].interfaces) = 1
          /\ lsp_path[l].interfaces[1][2] = "B"

\* Some routed LSP has the ends of demand d.
HasRoutedLsp(d) ==
    \E l \in Lsps : /\ rsvp_lsp_objects[l].source = demand_objects[d].source
                    /\ rsvp_lsp_objects[l].dest = demand_objects[d].dest
                    /\ Routed(l)

\* A chain of non-failed interfaces leads from src to dest.
ReachableOverNonFailed(src, dest) ==
    InterfaceChains(src, dest, { i \in Interfaces : ~interface_objects[i].failed }) # {}

\* C27: after update_simulation, a demand without a routed LSP between its
\* ends has an IP path if and only if a chain of non-failed interfaces leads
\* from its source to its destination, whatever the capacity, traffic,
\* rsvp_enabled, percent_reservable_bandwidth or reserved bandwidth of the
\* interfaces; otherwise its path is 'Unrouted'.
C27_IpPathIffReachable ==
    Simulated =>
        \A d \in Demands :
            ~HasRoutedLsp(d) =>
                IF ReachableOverNonFailed(demand_objects[d].source, demand_objects[d].dest)
                THEN demand_path[d].kind = "ip" /\ demand_path[d].paths # {}
                ELSE demand_path[d] = UnroutedDemand

\* A demand is on an IP path of two hops whose first interface has bandwidth
\* reserved by LSPs and less left to reserve than the demand's traffic.
C27_Witness ==
    /\ Simulated
    /\ \E d \in Demands :
          /\ demand_path[d].kind = "ip"
          /\ \E p \in demand_path[d].paths :
                /\ Len(p) = 2
                /\ reserved_bandwidth[p[1]] > 0
                /\ ReservableBandwidth(p[1]) < Bw(demand_objects[d].traffic)

\* c is a connected simple chain from src to dest: its first interface is on
\* src, each interface's remote node is the node of the next interface, the
\* last interface's remote node is dest, and no node or interface occurs
\* twice.  The chain without interfaces leads from a node to itself.
IsSimpleChainFromTo(c, src, dest) ==
    IF c = <<>>
    THEN src = dest
    ELSE /\ c[1][1] = src
         /\ c[Len(c)][2] = dest
         /\ \A k \in 1..(Len(c) - 1) : c[k][2] = c[k + 1][1]
         /\ IsSimpleChain(c)

\* C28: the path of every routed LSP and every IP ECMP interface sequence of
\* a demand is a connected simple chain of interfaces of the model from the
\* source to the destination.
C28_PathsAreSimpleChains ==
    /\ \A l \in Lsps :
          Routed(l) =>
              /\ lsp_path[l].interfaces # <<>>
              /\ Range(lsp_path[l].interfaces) \subseteq Interfaces
              /\ IsSimpleChainFromTo(lsp_path[l].interfaces,
                                     rsvp_lsp_objects[l].source, rsvp_lsp_objects[l].dest)
    /\ \A d \in Demands :
          demand_path[d].kind = "ip" =>
              \A p \in demand_path[d].paths :
                  /\ Range(p) \subseteq Interfaces
                  /\ IsSimpleChainFromTo(p, demand_objects[d].source, demand_objects[d].dest)

\* An LSP and an IP demand are each on a path of two hops from A by B to C.
C28_Witness ==
    /\ Simulated
    /\ \E l \in Lsps : Routed(l) /\ Len(lsp_path[l].interfaces) = 2
    /\ \E d \in Demands :
          /\ demand_path[d].kind = "ip"
          /\ \E p \in demand_path[d].paths : Len(p) = 2 /\ p[1][2] = "B" /\ p[2][2] = "C"

\* C29: after update_simulation, the path of every demand is 'Unrouted', or
\* a non-empty list of routed LSPs, or a non-empty list of non-empty
\* interface sequences, also for a demand whose source is its destination.
C29_Original ==
    Simulated =>
        \A d \in Demands :
            \/ demand_path[d] = UnroutedDemand
            \/ /\ demand_path[d].kind = "lsps"
               /\ demand_path[d].lsps # {}
               /\ demand_path[d].paths = {}
               /\ \A l \in demand_path[d].lsps : Routed(l)
            \/ /\ demand_path[d].kind = "ip"
               /\ demand_path[d].lsps = {}
               /\ demand_path[d].paths # {}
               /\ \A p \in demand_path[d].paths : p # <<>>

\* add_circuit has ended by raising ModelException, in its own checks or in
\* the validate_model call it makes.
AddCircuitRaised == pc = "idle" /\ reference.taken /\ outcome = "ModelException"

\* C30: if add_circuit raises ModelException for any reason, the failure of
\* its validate_model call included, the interfaces of the model are those
\* before the call.
C30_Original ==
    AddCircuitRaised => interface_objects = reference.interface_objects

====
